---- MODULE Spec2Model ----
(***************************************************************************)
(* Model of the Wikipedia infobox parser of jobwiz                         *)
(* (scripts/trivia/trivia/wikipedia.py).  Text is modelled as TLA+ strings *)
(* of characters; the regular expressions of the source are written out as *)
(* the leftmost, backtracking matches Python's re module computes.         *)
(***************************************************************************)
EXTENDS Integers, Sequences, FiniteSets, TLC

(***************************************************************************)
(* Characters and Python str primitives                                    *)
(***************************************************************************)
\* s[i-1] with positions counted from 1; "" outside the string
Ch(s, i) == IF i >= 1 /\ i <= Len(s) THEN SubSeq(s, i, i) ELSE ""

UpperChars == "ABCDEFGHIJKLMNOPQRSTUVWXYZ"

LowerChars == "abcdefghijklmnopqrstuvwxyz"

DigitChars == "0123456789"

UpperSet == {Ch(UpperChars, i) : i \in 1..26}

LowerSet == {Ch(LowerChars, i) : i \in 1..26}

DigitSet == {Ch(DigitChars, i) : i \in 1..10}

SpaceSet == {" ", "\n", "\t"}

WordSet == UpperSet \cup LowerSet \cup DigitSet \cup {"_"}

LowerMap == [c \in UpperSet |-> Ch(LowerChars, CHOOSE i \in 1..26 : Ch(UpperChars, i) = c)]

\* \s of the re module, and the characters str.strip() and str.split() drop
IsSpace(c) == c \in SpaceSet

\* \w of the re module
IsWord(c) == c \in WordSet

\* \d of the re module
IsDigit(c) == c \in DigitSet

LowerCh(c) == IF c \in UpperSet THEN LowerMap[c] ELSE c

\* least and greatest element of a non-empty set of positions
MinOf(S) == CHOOSE x \in S : \A y \in S : x <= y

MaxOf(S) == CHOOSE x \in S : \A y \in S : x >= y

\* least position in a..b that satisfies the test, or `none`
First(S, none) == IF S = {} THEN none ELSE MinOf(S)

\* greatest position of the set, or `none`
Last(S, none) == IF S = {} THEN none ELSE MaxOf(S)

RECURSIVE LowerRange(_, _, _)
LowerRange(s, a, b) ==
    IF a > b THEN ""
    ELSE IF a = b THEN LowerCh(Ch(s, a))
    ELSE LowerRange(s, a, (a + b) \div 2) \o LowerRange(s, (a + b) \div 2 + 1, b)

\* str.lower()
Lower(s) == LowerRange(s, 1, Len(s))

\* s[i-1:].startswith(lit), positions counted from 1
StartsWithAt(s, i, lit) == /\ i >= 1
                           /\ i + Len(lit) - 1 <= Len(s)
                           /\ SubSeq(s, i, i + Len(lit) - 1) = lit

\* the same, ignoring case (re.IGNORECASE on a literal); lit is lower case
StartsWithAtI(s, i, lit) == /\ i >= 1
                            /\ i + Len(lit) - 1 <= Len(s)
                            /\ Lower(SubSeq(s, i, i + Len(lit) - 1)) = lit

\* the position after an optional literal at i ((?:lit)? of the re module)
SkipLit(s, i, lit) == IF StartsWithAt(s, i, lit) THEN i + Len(lit) ELSE i

\* the same, ignoring case; lit is lower case
SkipLitI(s, i, lit) == IF StartsWithAtI(s, i, lit) THEN i + Len(lit) ELSE i

\* s[i-1:]
From(s, i) == SubSeq(s, i, Len(s))

\* least position >= i at which lit starts, 0 when there is none
FindFrom(s, lit, i) == First({j \in i..Len(s) : StartsWithAt(s, j, lit)}, 0)

\* lit in s
Contains(s, lit) == FindFrom(s, lit, 1) # 0

\* str.count(c) for a single character c
Count(s, c) == Cardinality({i \in 1..Len(s) : Ch(s, i) = c})

\* position after the longest run of characters outside `stop` that starts at i
RunEnd(s, i, stop) == First({j \in i..Len(s) : Ch(s, j) \in stop}, Len(s) + 1)

\* position after the longest run of whitespace that starts at i (greedy \s*)
SpaceEnd(s, i) == First({j \in i..Len(s) : ~IsSpace(Ch(s, j))}, Len(s) + 1)

\* position after at most n digits that start at i (greedy \d{0,n})
DigitEnd(s, i, n) ==
    MinOf({i + n, First({j \in i..Len(s) : ~IsDigit(Ch(s, j))}, Len(s) + 1)})

\* position after the longest run of word characters that starts at i (greedy \w*)
WordEnd(s, i) == First({j \in i..Len(s) : ~IsWord(Ch(s, j))}, Len(s) + 1)

\* str.strip()
Strip(s) ==
    LET keep == {j \in 1..Len(s) : ~IsSpace(Ch(s, j))}
    IN  IF keep = {} THEN "" ELSE SubSeq(s, MinOf(keep), MaxOf(keep))

RECURSIVE SplitFrom(_, _, _)
SplitFrom(s, seps, start) ==
    LET j == RunEnd(s, start, seps)
    IN  IF j > Len(s) THEN <<From(s, start)>>
        ELSE <<SubSeq(s, start, j - 1)>> \o SplitFrom(s, seps, j + 1)

\* str.split(c) and re.split("[...]", s): the pieces between separator
\* characters, empty pieces included
Split(s, seps) == SplitFrom(s, seps, 1)

RECURSIVE JoinFrom(_, _, _)
JoinFrom(seq, sep, k) == IF k > Len(seq) THEN ""
                         ELSE IF k = Len(seq) THEN seq[k]
                         ELSE seq[k] \o sep \o JoinFrom(seq, sep, k + 1)

\* sep.join(seq)
Join(seq, sep) == JoinFrom(seq, sep, 1)

\* str.replace(a, b) for a single character a
Replace(s, a, b) == Join(Split(s, {a}), b)

RECURSIVE ZFill(_, _)
\* str.zfill(n)
ZFill(s, n) == IF Len(s) >= n THEN s ELSE ZFill("0" \o s, n)

RECURSIVE NonEmpty(_, _)
NonEmpty(seq, k) == IF k > Len(seq) THEN <<>>
                    ELSE (IF seq[k] # "" THEN <<seq[k]>> ELSE <<>>) \o NonEmpty(seq, k + 1)

\* " ".join(value.split()): words separated by one space, no outer space
CollapseWs(s) == Join(NonEmpty(Split(s, SpaceSet), 1), " ")

(***************************************************************************)
(* WikipediaFetcher._clean_wiki_value                                      *)
(***************************************************************************)
\* \[\[([^\]|]*\|)?([^\]]*)\]\] : "[[", the text up to the first "]", "]]"
LinkEnd(s, i) ==
    IF ~StartsWithAt(s, i, "[[") THEN 0
    ELSE LET e == RunEnd(s, i + 2, {"]"})
         IN  IF StartsWithAt(s, e, "]]") THEN e + 2 ELSE 0

\* group 2: what follows the first "|" of the link, or the whole link text
LinkText(s, i) ==
    LET e == RunEnd(s, i + 2, {"]"})
        p == RunEnd(s, i + 2, {"]", "|"})
    IN  IF p < e THEN SubSeq(s, p + 1, e - 1) ELSE SubSeq(s, i + 2, e - 1)

\* <ref[^>]*>.*?</ref> with re.DOTALL
RefSpanEnd(s, i) ==
    IF ~StartsWithAt(s, i, "<ref") THEN 0
    ELSE LET g == RunEnd(s, i + 4, {">"})
             f == FindFrom(s, "</ref>", g + 1)
         IN  IF g <= Len(s) /\ f # 0 THEN f + 6 ELSE 0

\* <ref[^/]*/>
RefSelfClosedEnd(s, i) ==
    IF ~StartsWithAt(s, i, "<ref") THEN 0
    ELSE LET g == RunEnd(s, i + 4, {"/"})
         IN  IF StartsWithAt(s, g, "/>") THEN g + 2 ELSE 0

\* \{\{[^}]*\}\}
TemplateEnd(s, i) ==
    IF ~StartsWithAt(s, i, "{{") THEN 0
    ELSE LET g == RunEnd(s, i + 2, {"}"})
         IN  IF StartsWithAt(s, g, "}}") THEN g + 2 ELSE 0

\* <[^>]+>
TagEnd(s, i) ==
    IF ~StartsWithAt(s, i, "<") THEN 0
    ELSE LET g == RunEnd(s, i + 1, {">"})
         IN  IF g > i + 1 /\ g <= Len(s) THEN g + 1 ELSE 0

\* the patterns of _clean_wiki_value, in the order it applies them
PatternEnd(pat, s, i) ==
    CASE pat = "link"     -> LinkEnd(s, i)
      [] pat = "ref"      -> RefSpanEnd(s, i)
      [] pat = "ref_self" -> RefSelfClosedEnd(s, i)
      [] pat = "template" -> TemplateEnd(s, i)
      [] pat = "tag"      -> TagEnd(s, i)

\* the replacement: r"\2" for links, "" for every other pattern
PatternRepl(pat, s, i) == IF pat = "link" THEN LinkText(s, i) ELSE ""

RECURSIVE ReSubFrom(_, _, _)
\* re.sub: non-overlapping matches, leftmost first, each replaced
ReSubFrom(pat, s, i) ==
    LET Replaced(j) ==
            IF j = 0 THEN From(s, i)
            ELSE SubSeq(s, i, j - 1) \o PatternRepl(pat, s, j)
                   \o ReSubFrom(pat, s, PatternEnd(pat, s, j))
    IN  Replaced(First({k \in i..Len(s) : PatternEnd(pat, s, k) # 0}, 0))

ReSub(pat, s) == ReSubFrom(pat, s, 1)

CleanLinks(value) == ReSub("link", value)

\* the re.sub calls of lines 268-275, in the order they run
CleanPatterns == <<"link", "ref", "ref_self", "template", "tag">>

RECURSIVE ReSubAll(_, _)
ReSubAll(pats, value) ==
    IF pats = <<>> THEN value ELSE ReSubAll(Tail(pats), ReSub(Head(pats), value))

clean_wiki_value(value) == Strip(CollapseWs(ReSubAll(CleanPatterns, value)))

(***************************************************************************)
(* WikipediaFetcher._extract_from_templates                                *)
(***************************************************************************)
\* \{\{Start date[^|]*\|(\d{4}) matched at i: the position of the year, or 0
StartDateYearAt(s, i) ==
    IF ~StartsWithAtI(s, i, "{{start date") THEN 0
    ELSE LET j == RunEnd(s, i + 12, {"|"})
         IN  IF j <= Len(s) /\ DigitEnd(s, j + 1, 4) = j + 5 THEN j + 1 ELSE 0

\* re.search: the year position of the leftmost match, or 0
StartDateSearch(s) ==
    LET Year(i) == IF i = 0 THEN 0 ELSE StartDateYearAt(s, i)
    IN  Year(First({k \in 1..Len(s) : StartDateYearAt(s, k) # 0}, 0))

extract_from_templates(value) ==
    LET \* f"{year}-{month.zfill(2)}-{day.zfill(2)}" and its shorter forms
        Date(year, month, day) ==
            IF month # "" /\ day # ""
            THEN year \o "-" \o ZFill(month, 2) \o "-" \o ZFill(day, 2)
            ELSE IF month # "" THEN year \o "-" \o ZFill(month, 2)
            ELSE year
        \* \|?(\d{1,2})?\|?(\d{1,2})? after the year at y, every part greedy:
        \* the month is [m0, m1), the day starts at d0
        Day(y, m0, m1, d0) ==
            Date(SubSeq(value, y, y + 3), SubSeq(value, m0, m1 - 1),
                 SubSeq(value, d0, DigitEnd(value, d0, 2) - 1))
        Month(y, m0, m1) == Day(y, m0, m1, SkipLit(value, m1, "|"))
        Year(y, m0) == Month(y, m0, DigitEnd(value, m0, 2))
        Extracted(y) ==
            IF y # 0 THEN Year(y, SkipLit(value, y + 4, "|"))
            ELSE IF Contains(value, "{{Ubl") \/ Contains(value, "{{ubl") THEN value
            ELSE value
    IN  Extracted(StartDateSearch(value))

\* lines 215-216 of _process_infobox_field: extraction, then cleaning
normalize_value(raw_value) == clean_wiki_value(extract_from_templates(raw_value))

(***************************************************************************)
(* WikipediaFetcher._split_list                                            *)
(***************************************************************************)
\* U+2022 BULLET is outside the ASCII the module is written in; "~" stands for it
Bullet == "~"

ListSeparators == {",", "\n", Bullet, "*"}

RECURSIVE StripNonEmpty(_, _)
\* [item.strip() for item in items if item.strip()]
StripNonEmpty(items, k) ==
    IF k > Len(items) THEN <<>>
    ELSE (IF Strip(items[k]) # "" THEN <<Strip(items[k])>> ELSE <<>>) \o StripNonEmpty(items, k + 1)

\* a splitter that drops the empty pieces but does not trim the others
SplitListUntrimmed(value) == NonEmpty(Split(value, ListSeparators), 1)

split_list(value) == StripNonEmpty(Split(value, ListSeparators), 1)

(***************************************************************************)
(* Optional[str]: None, or Some(v) for a string v                          *)
(***************************************************************************)
None == <<>>

Some(v) == <<v>>

(***************************************************************************)
(* WikipediaFetcher._extract_ceo                                           *)
(***************************************************************************)
ChiefExecutive == "chief executive officer|"

\* \[\[([^\]|]+)(?:\|[^\]]+)?\]\]\s*\(?(?:\[\[)?(?:Chief executive officer\|)?CEO
\* matched at i: the position after group 1, or 0
CeoLinkGroupEnd(s, i) ==
    LET \* (?:\|[^\]]+)?\]\] after the group that ends at p: the position after it, or 0
        Close(p, q) ==
            IF Ch(s, p) = "|"
            THEN (IF q > p + 1 /\ StartsWithAt(s, q, "]]") THEN q + 2 ELSE 0)
            ELSE (IF StartsWithAt(s, p, "]]") THEN p + 2 ELSE 0)
        \* \s*\(?(?:\[\[)?(?:Chief executive officer\|)? : the position after it
        Title(close) ==
            SkipLitI(s, SkipLit(s, SkipLit(s, SpaceEnd(s, close), "("), "[["), ChiefExecutive)
        Group(p, close) ==
            IF p > i + 2 /\ close # 0 /\ StartsWithAtI(s, Title(close), "ceo") THEN p ELSE 0
        Name(p) == Group(p, Close(p, RunEnd(s, p + 1, {"]"})))
    IN  IF ~StartsWithAt(s, i, "[[") THEN 0 ELSE Name(RunEnd(s, i + 2, {"]", "|"}))

\* re.search: group 1 of the leftmost match, or None
CeoLinkSearch(s) ==
    LET Group(i) == IF i = 0 THEN None ELSE Some(SubSeq(s, i + 2, CeoLinkGroupEnd(s, i) - 1))
    IN  Group(First({k \in 1..Len(s) : CeoLinkGroupEnd(s, k) # 0}, 0))

\* a name class that does not stop at commas
NameStopNoComma == {"\n", "["}

\* [^,\n\[] : the characters a name cannot contain
NameStop == {",", "\n", "["}

\* ([^,\n\[]+)\s*\(CEO\) from i: the greedy group is the longest run of
\* name characters that \s*\(CEO\) follows; the position after it, or 0
CeoParenGroupEnd(s, i) ==
    Last({e \in (i + 1)..RunEnd(s, i, NameStop) :
            StartsWithAtI(s, SpaceEnd(s, e), "(ceo)")}, 0)

CeoParenSearch(s) ==
    LET Group(i) == IF i = 0 THEN None ELSE Some(SubSeq(s, i, CeoParenGroupEnd(s, i) - 1))
    IN  Group(First({k \in 1..Len(s) : CeoParenGroupEnd(s, k) # 0}, 0))

\* \s+CEO(?:\s|,|$) matched at e
TitleFollows(s, e) ==
    LET Title(a) == /\ a > e
                    /\ StartsWithAtI(s, a, "ceo")
                    /\ (a + 3 > Len(s) \/ IsSpace(Ch(s, a + 3)) \/ Ch(s, a + 3) = ",")
    IN  Title(SpaceEnd(s, e))

\* ([^,\n\[]+?)\s+CEO(?:\s|,|$) from i: the lazy group is the shortest run
\* of name characters that the title follows; the position after it, or 0
CeoTitleGroupEnd(s, i) ==
    First({e \in (i + 1)..RunEnd(s, i, NameStop) : TitleFollows(s, e)}, 0)

CeoTitleSearch(s) ==
    LET Group(i) == IF i = 0 THEN None ELSE Some(SubSeq(s, i, CeoTitleGroupEnd(s, i) - 1))
    IN  Group(First({k \in 1..Len(s) : CeoTitleGroupEnd(s, k) # 0}, 0))

extract_ceo(value) ==
    LET \* the three re.search results, tried in the order of `patterns`
        Matched(link, paren, title) ==
            IF link # None THEN Some(Strip(link[1]))
            ELSE IF paren # None THEN Some(Strip(paren[1]))
            ELSE IF title # None THEN Some(Strip(title[1]))
            ELSE IF value # "" THEN Some(Strip(Split(CleanLinks(value), {","})[1]))
            ELSE None
    IN  Matched(CeoLinkSearch(value), CeoParenSearch(value), CeoTitleSearch(value))

(***************************************************************************)
(* CompanyFacts and WikipediaFetcher._process_infobox_field                *)
(***************************************************************************)
EmptyDict == [k \in {} |-> ""]

\* CompanyFacts(company_name=...): the defaults of the dataclass
NewFacts == [founding_date |-> None, founders |-> <<>>, headquarters |-> None,
             industry |-> None, products |-> <<>>, employees |-> None,
             ceo |-> None, revenue |-> None, raw_infobox |-> EmptyDict]

MappedKeys == {"founded", "foundation", "founding_date", "founder", "location",
               "headquarters", "hq_location", "hq_location_city", "industry", "products",
               "services", "num_employees", "employees", "num_employees_year",
               "key_people", "ceo", "revenue"}

\* a mapper that records only the keys it maps to a named attribute
StoreRawMappedOnly(key, value, facts) ==
    IF key \in MappedKeys
    THEN [facts EXCEPT !.raw_infobox = (key :> value) @@ facts.raw_infobox]
    ELSE facts

\* facts.raw_infobox[key] = value
StoreRaw(key, value, facts) ==
    [facts EXCEPT !.raw_infobox = (key :> value) @@ facts.raw_infobox]

\* a test that takes every extracted string, the empty one included, for a name
IsNameOrEmpty(ceo) == ceo # None

\* "if ceo:" : neither None nor the empty string
IsName(ceo) == ceo # None /\ ceo[1] # ""

\* the if/elif chain "Map common fields"
MapField(key, raw_value, value, facts) ==
    IF key \in {"founded", "foundation", "founding_date"}
    THEN [facts EXCEPT !.founding_date = Some(value)]
    ELSE IF key = "founder"
    THEN [facts EXCEPT !.founders = split_list(value)]
    ELSE IF key \in {"location", "headquarters", "hq_location", "hq_location_city"}
    THEN [facts EXCEPT !.headquarters = Some(value)]
    ELSE IF key = "industry"
    THEN [facts EXCEPT !.industry = Some(value)]
    ELSE IF key \in {"products", "services"}
    THEN [facts EXCEPT !.products = split_list(value)]
    ELSE IF key \in {"num_employees", "employees", "num_employees_year"}
    THEN [facts EXCEPT !.employees = Some(value)]
    ELSE IF key \in {"key_people", "ceo"}
    THEN LET SetCeo(ceo) ==
                 IF IsName(ceo) THEN [facts EXCEPT !.ceo = ceo] ELSE facts
         IN  SetCeo(extract_ceo(raw_value))
    ELSE IF key = "revenue"
    THEN [facts EXCEPT !.revenue = Some(value)]
    ELSE facts

\* a mapper that maps the extracted value before it is cleaned
ProcessFieldUncleaned(key, raw_value, facts) ==
    LET Process(value) ==
            IF value = "" THEN facts
            ELSE MapField(key, raw_value, extract_from_templates(raw_value),
                          StoreRaw(key, value, facts))
    IN  Process(normalize_value(raw_value))

process_infobox_field(key, raw_value, facts) ==
    LET Process(value) ==
            IF value = "" THEN facts
            ELSE MapField(key, raw_value, value, StoreRaw(key, value, facts))
    IN  Process(normalize_value(raw_value))

(***************************************************************************)
(* WikipediaFetcher._parse_infobox: marker, brace scan, dispatch           *)
(***************************************************************************)
\* \{\{Infobox[_ ]company with re.IGNORECASE, matched at i
InfoboxStartAt(s, i) == /\ StartsWithAtI(s, i, "{{infobox")
                        /\ Ch(s, i + 9) \in {"_", " "}
                        /\ StartsWithAtI(s, i + 10, "company")

\* infobox_start.end(), as the number of characters before it; -1: no match
infobox_start_end(wikitext) ==
    LET End(i) == IF i = 0 THEN -1 ELSE i + 16
    IN  End(First({k \in 1..Len(wikitext) : InfoboxStartAt(wikitext, k)}, 0))

RECURSIVE BraceScan(_, _, _)
\* the while loop from (1-based) position i on; the result is end_pos.
\* Positions that start neither "{{" nor "}}" only advance i by one, so
\* the loop is followed from one brace pair to the next.
BraceScan(remaining, i, brace_count) ==
    LET j == First({k \in i..(Len(remaining) - 1) :
                      \/ StartsWithAt(remaining, k, "{{")
                      \/ StartsWithAt(remaining, k, "}}")}, 0)
    IN  IF j = 0 THEN Len(remaining)
        ELSE IF StartsWithAt(remaining, j, "{{")
        THEN BraceScan(remaining, j + 2, brace_count + 1)
        ELSE IF brace_count - 1 = 0 THEN j - 1
        ELSE BraceScan(remaining, j + 2, brace_count - 1)

\* a scan that does not count nesting: the body ends at the first "}}"
EndPosFirstClose(remaining) ==
    LET j == FindFrom(remaining, "}}", 1)
    IN  IF j = 0 THEN Len(remaining) ELSE j - 1

\* a scan whose end_pos starts at 0 instead of len(remaining)
EndPosZeroDefault(remaining) ==
    IF BraceScan(remaining, 1, 1) = Len(remaining) THEN 0 ELSE BraceScan(remaining, 1, 1)

end_pos(remaining) == BraceScan(remaining, 1, 1)

\* the dispatch without the strip(): newlines counted over the whole body
IsSingleLineUnstripped(infobox_text) ==
    \/ ~Contains(infobox_text, "\n")
    \/ Count(infobox_text, "|") > Count(infobox_text, "\n")

\* the condition that selects _parse_single_line_infobox
is_single_line(infobox_text) ==
    \/ ~Contains(Strip(infobox_text), "\n")
    \/ Count(infobox_text, "|") > Count(infobox_text, "\n")

(***************************************************************************)
(* _parse_single_line_infobox: one part of infobox_text.split('|')         *)
(***************************************************************************)
\* part.partition('='): key and value of a part that contains "="
PartKey(part) ==
    Replace(Lower(Strip(SubSeq(part, 1, FindFrom(part, "=", 1) - 1))), " ", "_")

\* a partition that keeps the whitespace around the value
PartValueUntrimmed(part) == From(part, FindFrom(part, "=", 1) + 1)

PartValue(part) == Strip(From(part, FindFrom(part, "=", 1) + 1))

\* whether the part reaches _process_infobox_field
PartIsField(part) == Contains(part, "=") /\ PartKey(part) # "" /\ PartValue(part) # ""

(***************************************************************************)
(* _parse_multiline_infobox: one line of infobox_text.split('\n')          *)
(***************************************************************************)
\* re.match(r"\s*\|\s*(\w+(?:[\s_]\w+)?)\s*=\s*(.*)", line): the positions
\* [b, e) of group 1 and d of group 2, or ok = FALSE.  \w+ is greedy, so
\* the optional second word starts after one whitespace character.
FieldMatch(line) ==
    LET Match(a, b, w1, e, c) ==
            [ok |-> Ch(line, a) = "|" /\ w1 > b /\ Ch(line, c) = "=",
             b |-> b, e |-> e, d |-> SpaceEnd(line, c + 1)]
        Key(a, b, w1, e) == Match(a, b, w1, e, SpaceEnd(line, e))
        Words(a, b, w1, w2) ==
            Key(a, b, w1, IF /\ IsSpace(Ch(line, w1))
                             /\ w2 > w1 + 1
                             /\ Ch(line, SpaceEnd(line, w2)) = "="
                          THEN w2 ELSE w1)
        Word(a, b, w1) == Words(a, b, w1, WordEnd(line, w1 + 1))
        Bar(a, b) == Word(a, b, WordEnd(line, b))
        Lead(a) == Bar(a, SpaceEnd(line, a + 1))
    IN  Lead(SpaceEnd(line, 1))

FieldMatches(line) == FieldMatch(line).ok

\* field_match.group(1).lower().strip().replace(" ", "_")
FieldKey(line) ==
    LET Key(m) == Replace(Strip(Lower(SubSeq(line, m.b, m.e - 1))), " ", "_")
    IN  Key(FieldMatch(line))

\* field_match.group(2)
FieldRest(line) == From(line, FieldMatch(line).d)

\* "if current_key and current_value"
FieldInProgress(key, value) == key # None /\ key[1] # "" /\ value # <<>>

\* the continuation test without its closing-brace exclusion
IsNonEmptyLine(key, line) ==
    /\ key # None /\ key[1] # ""
    /\ Strip(line) # ""

\* "elif current_key and line.strip() and not line.strip().startswith('}}')"
IsContinuation(key, line) ==
    /\ key # None /\ key[1] # ""
    /\ Strip(line) # ""
    /\ ~StartsWithAt(Strip(line), 1, "}}")

(***************************************************************************)
(* The wikitexts the parser is run on.  A page is built from a lead-in, an *)
(* infobox marker, one to MaxFields fields laid out on one line or one per *)
(* line, and an ending; `page` records how, `wikitext` is the text itself. *)
(***************************************************************************)
MaxFields == 2

FieldPool == {
    [key |-> "founded",    value |-> "1998"],
    [key |-> "founded",    value |-> "{{Start date|1998|9|4}}"],
    [key |-> "foundation", value |-> "1999"],
    [key |-> "industry",   value |-> "Tech"],
    [key |-> "revenue",    value |-> "{{USD|100 billion}}"],
    [key |-> "key_people", value |-> "Sundar Pichai (CEO)"],
    [key |-> "location",   value |-> "[[Mountain View, California|Mountain View]]"],
    [key |-> "founder",    value |-> "[[Larry Page]], [[Sergey Brin]]"],
    [key |-> "website",    value |-> "{{URL|{{lc:Example}}.com}}"] }

Markers == {
    [lead |-> "", mark |-> "{{Infobox company", kind |-> "company"],
    [lead |-> "{{Short description|Company}}\n", mark |-> "{{infobox_company", kind |-> "company"],
    [lead |-> "", mark |-> "{{Infobox organization", kind |-> "generic"] }

Layouts == {"line", "lines"}

\* closed: "}}" ends the page; trailed: article text follows the "}}";
\* open: the closing "}}" is missing and the article text follows the fields
Endings == {"closed", "trailed", "open"}

Trailer == "\nGoogle is a {{nowrap|tech company}}."

FieldLists == UNION {[1..n -> FieldPool] : n \in 1..MaxFields}

Pages == [marker : Markers, layout : Layouts, ending : Endings, fields : FieldLists]

RECURSIVE FieldsText(_, _, _)
FieldsText(layout, fields, k) ==
    IF k > Len(fields) THEN ""
    ELSE (IF layout = "line"
          THEN "|" \o fields[k].key \o "=" \o fields[k].value
          ELSE "\n| " \o fields[k].key \o " = " \o fields[k].value)
         \o FieldsText(layout, fields, k + 1)

\* the text between the marker and the closing "}}" of the infobox
BodyOf(p) == FieldsText(p.layout, p.fields, 1) \o (IF p.layout = "lines" THEN "\n" ELSE "")

TextOf(p) ==
    p.marker.lead \o p.marker.mark \o BodyOf(p)
      \o (CASE p.ending = "closed"  -> "}}"
            [] p.ending = "trailed" -> "}}" \o Trailer
            [] p.ending = "open"    -> Trailer)

(***************************************************************************)
(* The values normalize_value is run on: up to MaxPieces pieces of markup  *)
(***************************************************************************)
MaxPieces == 4

MarkupPieces == {"[[", "]]", "{{", "}}", "<b>", "{", "|", "a", " ", "{{Start date|1998|9}}"}

PieceLists == UNION {[1..n -> MarkupPieces] : n \in 0..MaxPieces}

(***************************************************************************)
(* The key_people values _extract_ceo is run on: one to MaxPeople people,  *)
(* separated by ", ", each written in one of the three documented forms    *)
(***************************************************************************)
MaxPeople == 2

People == [name : {"Sundar Pichai", "Ruth Porat"}, form : {"link", "paren", "title"},
           role : {"CEO", "CFO"}]

PeopleLists == UNION {[1..n -> People] : n \in 1..MaxPeople}

PersonText(p) ==
    CASE p.form = "link"  -> "[[" \o p.name \o "]] ([[Chief "
                               \o (IF p.role = "CEO" THEN "executive" ELSE "financial")
                               \o " officer|" \o p.role \o "]])"
      [] p.form = "paren" -> p.name \o " (" \o p.role \o ")"
      [] p.form = "title" -> p.name \o " " \o p.role

RECURSIVE PeopleText(_, _)
PeopleText(people, k) ==
    IF k > Len(people) THEN ""
    ELSE PersonText(people[k]) \o (IF k < Len(people) THEN ", " ELSE "") \o PeopleText(people, k + 1)

(***************************************************************************)
(* State.  page .. yielded: one _parse_infobox(wikitext, facts) call;      *)
(* nv_*: normalize_value applied twice; ceo_*: one _extract_ceo call and   *)
(* the key_people field that carries the same value.                       *)
(***************************************************************************)
VARIABLES page, wikitext, pc, infobox_text, parts, lines, current_key,
          current_value, facts, yielded,
          nv_pc, nv_x, nv_once, nv_twice,
          ceo_pc, ceo_people, ceo_value, ceo_result, ceo_facts,
          sl_pc, sl_x, sl_items,
          fc_pc, fc_search, fc_page_data, fc_url, fc_summary, fc_returned, fc_raised,
          cc_pages, cc_calls, cc_heap, cc_self, cc_overlapped,
          cd_pc, cd_config, cd_attempt, cd_random, cd_delay,
          bo_pc, bo_max_attempts, bo_config, bo_on_retry, bo_attempt, bo_delay,
          bo_last_exception, bo_trace, bo_result, bo_raised,
          st_pc, st_storage, st_items, st_new_count, st_dup_count, st_writes, st_returned,
          tr_pc, tr_schema, tr_items, tr_rows, tr_run, tr_done, tr_new_count,
          tr_dup_count, tr_returned, tr_rows_first,
          gd_pc, gd_limit, gd_page, gd_items, gd_responses, gd_returned, gd_raised,
          qz_pc, qz_response, qz_result,
          ft_pc, ft_run, ft_file, ft_companies, ft_roles, ft_progress, ft_loaded, ft_i,
          ft_interview_volume, ft_role_data, ft_blocked, ft_status, ft_fetched

parse_vars == <<page, wikitext, pc, infobox_text, parts, lines, current_key,
                current_value, facts, yielded>>

nv_vars == <<nv_pc, nv_x, nv_once, nv_twice>>

ceo_vars == <<ceo_pc, ceo_people, ceo_value, ceo_result, ceo_facts>>

sl_vars == <<sl_pc, sl_x, sl_items>>

fc_vars == <<fc_pc, fc_search, fc_page_data, fc_url, fc_summary, fc_returned, fc_raised>>

cc_vars == <<cc_pages, cc_calls, cc_heap, cc_self, cc_overlapped>>

cd_vars == <<cd_pc, cd_config, cd_attempt, cd_random, cd_delay>>

bo_vars == <<bo_pc, bo_max_attempts, bo_config, bo_on_retry, bo_attempt, bo_delay,
             bo_last_exception, bo_trace, bo_result, bo_raised>>

st_vars == <<st_pc, st_storage, st_items, st_new_count, st_dup_count, st_writes,
             st_returned>>

tr_vars == <<tr_pc, tr_schema, tr_items, tr_rows, tr_run, tr_done, tr_new_count,
             tr_dup_count, tr_returned, tr_rows_first>>

gd_vars == <<gd_pc, gd_limit, gd_page, gd_items, gd_responses, gd_returned, gd_raised>>

qz_vars == <<qz_pc, qz_response, qz_result>>

ft_vars == <<ft_pc, ft_run, ft_file, ft_companies, ft_roles, ft_progress, ft_loaded, ft_i,
             ft_interview_volume, ft_role_data, ft_blocked, ft_status, ft_fetched>>

vars == <<parse_vars, nv_vars, ceo_vars, sl_vars, fc_vars, cc_vars, cd_vars, bo_vars,
          st_vars, tr_vars, gd_vars, qz_vars, ft_vars>>

\* no parse, no normalization, no extraction under way
ParseIdle ==
    /\ page = [marker |-> [lead |-> "", mark |-> "", kind |-> "none"], layout |-> "line",
               ending |-> "closed", fields |-> <<>>]
    /\ wikitext = ""
    /\ pc = "idle"
    /\ infobox_text = ""
    /\ parts = <<>>
    /\ lines = <<>>
    /\ current_key = None
    /\ current_value = <<>>
    /\ facts = NewFacts
    /\ yielded = <<>>

NvIdle == nv_pc = "idle" /\ nv_x = "" /\ nv_once = "" /\ nv_twice = ""

CeoIdle == /\ ceo_pc = "idle"
           /\ ceo_people = <<>>
           /\ ceo_value = ""
           /\ ceo_result = None
           /\ ceo_facts = NewFacts

SlIdle == sl_pc = "idle" /\ sl_x = "" /\ sl_items = <<>>

FcIdle == /\ fc_pc = "idle"
          /\ fc_search = "empty"
          /\ fc_page_data = <<>>
          /\ fc_url = None
          /\ fc_summary = ""
          /\ fc_returned = "pending"
          /\ fc_raised = "none"

CcIdle == /\ cc_pages = <<>>
          /\ cc_calls = <<>>
          /\ cc_heap = <<>>
          /\ cc_self = <<>>
          /\ cc_overlapped = <<>>

CdIdle == /\ cd_pc = "idle"
          /\ cd_config = <<>>
          /\ cd_attempt = 0
          /\ cd_random = 0
          /\ cd_delay = 0

BoIdle == /\ bo_pc = "idle"
          /\ bo_max_attempts = 0
          /\ bo_config = <<>>
          /\ bo_on_retry = "none"
          /\ bo_attempt = 0
          /\ bo_delay = 0
          /\ bo_last_exception = None
          /\ bo_trace = <<>>
          /\ bo_result = None
          /\ bo_raised = None

StIdle == /\ st_pc = "idle"
          /\ st_storage = "none"
          /\ st_items = <<>>
          /\ st_new_count = 0
          /\ st_dup_count = 0
          /\ st_writes = <<>>
          /\ st_returned = None

TrIdle == /\ tr_pc = "idle"
          /\ tr_schema = "none"
          /\ tr_items = <<>>
          /\ tr_rows = <<>>
          /\ tr_run = 0
          /\ tr_done = 0
          /\ tr_new_count = 0
          /\ tr_dup_count = 0
          /\ tr_returned = <<>>
          /\ tr_rows_first = <<>>

GdIdle == /\ gd_pc = "idle"
          /\ gd_limit = 0
          /\ gd_page = 0
          /\ gd_items = <<>>
          /\ gd_responses = <<>>
          /\ gd_returned = None
          /\ gd_raised = None

QzIdle == qz_pc = "idle" /\ qz_response = <<>> /\ qz_result = None

FtIdle == /\ ft_pc = "none"
          /\ ft_run = 0
          /\ ft_file = None
          /\ ft_companies = <<>>
          /\ ft_roles = <<>>
          /\ ft_progress = None
          /\ ft_loaded = None
          /\ ft_i = 0
          /\ ft_interview_volume = 0
          /\ ft_role_data = <<>>
          /\ ft_blocked = FALSE
          /\ ft_status = "none"
          /\ ft_fetched = {}

\* every part of the state but the named ones is idle
RestIdle(active) ==
    /\ (IF "parse" \in active THEN TRUE ELSE ParseIdle)
    /\ (IF "nv" \in active THEN TRUE ELSE NvIdle)
    /\ (IF "ceo" \in active THEN TRUE ELSE CeoIdle)
    /\ (IF "sl" \in active THEN TRUE ELSE SlIdle)
    /\ (IF "fc" \in active THEN TRUE ELSE FcIdle)
    /\ (IF "cc" \in active THEN TRUE ELSE CcIdle)
    /\ (IF "cd" \in active THEN TRUE ELSE CdIdle)
    /\ (IF "bo" \in active THEN TRUE ELSE BoIdle)
    /\ (IF "st" \in active THEN TRUE ELSE StIdle)
    /\ (IF "tr" \in active THEN TRUE ELSE TrIdle)
    /\ (IF "gd" \in active THEN TRUE ELSE GdIdle)
    /\ (IF "qz" \in active THEN TRUE ELSE QzIdle)
    /\ (IF "ft" \in active THEN TRUE ELSE FtIdle)

\* a step of the named parts leaves every other part alone
RestUnchanged(active) ==
    /\ (IF "parse" \in active THEN TRUE ELSE UNCHANGED parse_vars)
    /\ (IF "nv" \in active THEN TRUE ELSE UNCHANGED nv_vars)
    /\ (IF "ceo" \in active THEN TRUE ELSE UNCHANGED ceo_vars)
    /\ (IF "sl" \in active THEN TRUE ELSE UNCHANGED sl_vars)
    /\ (IF "fc" \in active THEN TRUE ELSE UNCHANGED fc_vars)
    /\ (IF "cc" \in active THEN TRUE ELSE UNCHANGED cc_vars)
    /\ (IF "cd" \in active THEN TRUE ELSE UNCHANGED cd_vars)
    /\ (IF "bo" \in active THEN TRUE ELSE UNCHANGED bo_vars)
    /\ (IF "st" \in active THEN TRUE ELSE UNCHANGED st_vars)
    /\ (IF "tr" \in active THEN TRUE ELSE UNCHANGED tr_vars)
    /\ (IF "gd" \in active THEN TRUE ELSE UNCHANGED gd_vars)
    /\ (IF "qz" \in active THEN TRUE ELSE UNCHANGED qz_vars)
    /\ (IF "ft" \in active THEN TRUE ELSE UNCHANGED ft_vars)

(***************************************************************************)
(* _parse_infobox                                                          *)
(***************************************************************************)
ParseInit ==
    /\ page \in Pages
    /\ wikitext = TextOf(page)
    /\ pc = "start"
    /\ infobox_text = ""
    /\ parts = <<>>
    /\ lines = <<>>
    /\ current_key = None
    /\ current_value = <<>>
    /\ facts = NewFacts
    /\ yielded = <<>>

Init == ParseInit /\ RestIdle({"parse"})

\* lines 138-173: find the marker, scan the braces, choose the parser
Locate ==
    /\ pc = "start"
    /\ LET Body(remaining) == SubSeq(remaining, 1, end_pos(remaining))
           Parse(start_pos, text) ==
               IF start_pos = -1
               THEN /\ pc' = "done"
                    /\ UNCHANGED <<infobox_text, parts, lines>>
               ELSE /\ infobox_text' = text
                    /\ IF is_single_line(text)
                       THEN /\ pc' = "single"
                            /\ parts' = Split(text, {"|"})
                            /\ UNCHANGED lines
                       ELSE /\ pc' = "multi"
                            /\ lines' = Split(text, {"\n"})
                            /\ UNCHANGED parts
           Found(start_pos) == Parse(start_pos, Body(From(wikitext, start_pos + 1)))
       IN  Found(infobox_start_end(wikitext))
    /\ UNCHANGED <<page, wikitext, current_key, current_value, facts, yielded>>
    /\ RestUnchanged({"parse"})

\* lines 179-185: one iteration of "for part in parts"
SingleLinePart ==
    /\ pc = "single"
    /\ parts # <<>>
    /\ LET part == Head(parts)
       IN  IF PartIsField(part)
           THEN /\ facts' = process_infobox_field(PartKey(part), PartValue(part), facts)
                /\ yielded' = Append(yielded, [key |-> PartKey(part), raw_value |-> PartValue(part)])
           ELSE UNCHANGED <<facts, yielded>>
    /\ parts' = Tail(parts)
    /\ pc' = IF Tail(parts) = <<>> THEN "done" ELSE "single"
    /\ UNCHANGED <<page, wikitext, infobox_text, lines, current_key, current_value>>
    /\ RestUnchanged({"parse"})

\* lines 195-206: one iteration of "for line in lines"
MultiLineLine ==
    /\ pc = "multi"
    /\ lines # <<>>
    /\ LET line == Head(lines)
       IN  IF FieldMatches(line)
           THEN /\ IF FieldInProgress(current_key, current_value)
                   THEN /\ facts' = process_infobox_field(current_key[1], Join(current_value, " "), facts)
                        /\ yielded' = Append(yielded, [key |-> current_key[1],
                                                       raw_value |-> Join(current_value, " ")])
                   ELSE UNCHANGED <<facts, yielded>>
                /\ current_key' = Some(FieldKey(line))
                /\ current_value' = <<FieldRest(line)>>
           ELSE /\ IF IsContinuation(current_key, line)
                   THEN current_value' = Append(current_value, Strip(line))
                   ELSE UNCHANGED current_value
                /\ UNCHANGED <<current_key, facts, yielded>>
    /\ lines' = Tail(lines)
    /\ UNCHANGED <<page, wikitext, pc, infobox_text, parts>>
    /\ RestUnchanged({"parse"})

\* lines 208-210: "Process last field"
MultiLineLast ==
    /\ pc = "multi"
    /\ lines = <<>>
    /\ IF FieldInProgress(current_key, current_value)
       THEN /\ facts' = process_infobox_field(current_key[1], Join(current_value, " "), facts)
            /\ yielded' = Append(yielded, [key |-> current_key[1],
                                           raw_value |-> Join(current_value, " ")])
       ELSE UNCHANGED <<facts, yielded>>
    /\ pc' = "done"
    /\ UNCHANGED <<page, wikitext, infobox_text, parts, lines, current_key, current_value>>
    /\ RestUnchanged({"parse"})

Next == Locate \/ SingleLinePart \/ MultiLineLine \/ MultiLineLast

Spec == Init /\ [][Next]_vars

(***************************************************************************)
(* _parse_infobox on infoboxes whose values are plain text: one to         *)
(* MaxPlainFields fields of the Google fixture of test_wikipedia.py, of    *)
(* the headquarters keys and of key_people values, on one line or one per  *)
(* line.                                                                   *)
(***************************************************************************)
MaxPlainFields == 2

PlainPool == {
    [key |-> "name",             value |-> "Google LLC"],
    [key |-> "founded",          value |-> "1998"],
    [key |-> "founded",          value |-> "September 4, 1998"],
    [key |-> "founder",          value |-> "Larry Page, Sergey Brin"],
    [key |-> "location",         value |-> "Mountain View, California"],
    [key |-> "headquarters",     value |-> "Menlo Park"],
    [key |-> "hq_location",      value |-> "Cupertino"],
    [key |-> "hq_location_city", value |-> "Redmond"],
    [key |-> "location_city",    value |-> "Seattle"],
    [key |-> "industry",         value |-> "Technology"],
    [key |-> "industry",         value |-> " Cloud  computing "],
    [key |-> "products",         value |-> "Search engine, Cloud computing"],
    [key |-> "num_employees",    value |-> "190,000"],
    [key |-> "key_people",       value |-> "Sundar Pichai (CEO)"],
    [key |-> "key_people",       value |-> ", Ruth Porat (CFO)"] }

PlainFieldLists == UNION {[1..n -> PlainPool] : n \in 1..MaxPlainFields}

\* the fields of the infobox of test_extracts_infobox_data
GoogleFields == <<
    [key |-> "name",          value |-> "Google LLC"],
    [key |-> "founded",       value |-> "September 4, 1998"],
    [key |-> "founder",       value |-> "Larry Page, Sergey Brin"],
    [key |-> "location",      value |-> "Mountain View, California"],
    [key |-> "industry",      value |-> "Technology"],
    [key |-> "products",      value |-> "Search engine, Cloud computing"],
    [key |-> "num_employees", value |-> "190,000"],
    [key |-> "key_people",    value |-> "Sundar Pichai (CEO)"] >>

PlainPages == [marker : {[lead |-> "", mark |-> "{{Infobox company", kind |-> "company"]},
               layout : Layouts, ending : {"closed"},
               fields : PlainFieldLists \cup {GoogleFields}]

PlainInit ==
    /\ page \in PlainPages
    /\ wikitext = TextOf(page)
    /\ pc = "start"
    /\ infobox_text = ""
    /\ parts = <<>>
    /\ lines = <<>>
    /\ current_key = None
    /\ current_value = <<>>
    /\ facts = NewFacts
    /\ yielded = <<>>

InitPlain == PlainInit /\ RestIdle({"parse"})

SpecPlain == InitPlain /\ [][Next]_vars

(***************************************************************************)
(* _parse_multiline_infobox on its own: infobox_text is one to MaxLines    *)
(* lines joined by newlines: two field-start lines of one key (one with a  *)
(* trailing blank, one with an empty rest), continuation lines, a          *)
(* closing-brace line and an empty line.                                   *)
(***************************************************************************)
MaxLines == 4

LinePool == { "| founded = 1998 ",
              "|Founded =",
              "  Menlo Park ",
              "| Search",
              "  }} end",
              "" }

LineLists == UNION {[1..n -> LinePool] : n \in 1..MaxLines}

LinesInit ==
    /\ page = [marker |-> [lead |-> "", mark |-> "", kind |-> "none"], layout |-> "lines",
               ending |-> "open", fields |-> <<>>]
    /\ wikitext = ""
    /\ pc = "multi"
    /\ \E ls \in LineLists : infobox_text = Join(ls, "\n")
    /\ parts = <<>>
    /\ lines = Split(infobox_text, {"\n"})
    /\ current_key = None
    /\ current_value = <<>>
    /\ facts = NewFacts
    /\ yielded = <<>>

InitLines == LinesInit /\ RestIdle({"parse"})

NextLines == MultiLineLine \/ MultiLineLast

SpecLines == InitLines /\ [][NextLines]_vars

(***************************************************************************)
(* normalize_value applied to a value, then to its own result              *)
(***************************************************************************)
NvInit ==
    /\ nv_pc = "start"
    /\ nv_x \in {Join(pieces, "") : pieces \in PieceLists}
    /\ nv_once = ""
    /\ nv_twice = ""

InitNormalize == NvInit /\ RestIdle({"nv"})

NormalizeOnce ==
    /\ nv_pc = "start"
    /\ nv_once' = normalize_value(nv_x)
    /\ nv_pc' = "once"
    /\ UNCHANGED <<nv_x, nv_twice>>
    /\ RestUnchanged({"nv"})

NormalizeAgain ==
    /\ nv_pc = "once"
    /\ nv_twice' = normalize_value(nv_once)
    /\ nv_pc' = "twice"
    /\ UNCHANGED <<nv_x, nv_once>>
    /\ RestUnchanged({"nv"})

NextNormalize == NormalizeOnce \/ NormalizeAgain

SpecNormalize == InitNormalize /\ [][NextNormalize]_vars

(***************************************************************************)
(* _extract_ceo on a key_people value, and the field that carries it       *)
(***************************************************************************)
CeoInit ==
    /\ ceo_pc = "start"
    /\ ceo_people \in PeopleLists
    /\ ceo_value = PeopleText(ceo_people, 1)
    /\ ceo_result = None
    /\ ceo_facts = NewFacts

InitCeo == CeoInit /\ RestIdle({"ceo"})

\* fetcher._extract_ceo(value)
ExtractCeo ==
    /\ ceo_pc = "start"
    /\ ceo_result' = extract_ceo(ceo_value)
    /\ ceo_pc' = "extracted"
    /\ UNCHANGED <<ceo_people, ceo_value, ceo_facts>>
    /\ RestUnchanged({"ceo"})

\* _process_infobox_field("key_people", value, facts) on fresh facts
MapKeyPeople ==
    /\ ceo_pc = "extracted"
    /\ ceo_facts' = process_infobox_field("key_people", ceo_value, NewFacts)
    /\ ceo_pc' = "mapped"
    /\ UNCHANGED <<ceo_people, ceo_value, ceo_result>>
    /\ RestUnchanged({"ceo"})

NextCeo == ExtractCeo \/ MapKeyPeople

SpecCeo == InitCeo /\ [][NextCeo]_vars

(***************************************************************************)
(* normalize_value on a field value that is an unbulleted-list template:   *)
(* {{Ubl|...}} or {{ubl|...}} around one to MaxUblItems items              *)
(***************************************************************************)
MaxUblItems == 3

UblNames == {"{{Ubl", "{{ubl"}

UblItems == {"Search", "Ads", "[[Cloud computing|Cloud]]", "Maps "}

UblItemLists == UNION {[1..n -> UblItems] : n \in 1..MaxUblItems}

UblText(name, items) == name \o "|" \o Join(items, "|") \o "}}"

UblInit ==
    /\ nv_pc = "start"
    /\ nv_x \in {UblText(name, items) : name \in UblNames, items \in UblItemLists}
    /\ nv_once = ""
    /\ nv_twice = ""

InitUbl == UblInit /\ RestIdle({"nv"})

SpecUbl == InitUbl /\ [][NextNormalize]_vars

(***************************************************************************)
(* _extract_ceo on key_people values that name no CEO: up to MaxCeoPieces  *)
(* pieces of names, links, references, templates, tags and blanks          *)
(***************************************************************************)
MaxCeoPieces == 3

CeoPieces == {"Tim Cook", "[[Tim Cook]]", "[[Apple Inc.|Tim]]", "<ref>a, b</ref>",
              "{{efn|a}}", "<b>", "  ", ", Ruth Porat"}

CeoPieceLists == UNION {[1..n -> CeoPieces] : n \in 1..MaxCeoPieces}

FallbackInit ==
    /\ ceo_pc = "start"
    /\ ceo_people = <<>>
    /\ \E pieces \in CeoPieceLists : ceo_value = Join(pieces, "")
    /\ ceo_result = None
    /\ ceo_facts = NewFacts

InitFallback == FallbackInit /\ RestIdle({"ceo"})

SpecFallback == InitFallback /\ [][NextCeo]_vars

(***************************************************************************)
(* _split_list on a value: up to MaxListPieces pieces of text, whitespace  *)
(* and separators, and the values of test_split_list_handles_*             *)
(***************************************************************************)
MaxListPieces == 4

ListPieces == {"A", "B c", " ", ",", "\n", Bullet, "*"}

ListPieceLists == UNION {[1..n -> ListPieces] : n \in 0..MaxListPieces}

ListFixtures == {"Larry Page, Sergey Brin", "Search\nCloud\nAds", "A, B, C"}

SlInit ==
    /\ sl_pc = "start"
    /\ sl_x \in {Join(pieces, "") : pieces \in ListPieceLists} \cup ListFixtures
    /\ sl_items = <<>>

InitSplit == SlInit /\ RestIdle({"sl"})

\* fetcher._split_list(value)
SplitList ==
    /\ sl_pc = "start"
    /\ sl_items' = split_list(sl_x)
    /\ sl_pc' = "done"
    /\ UNCHANGED sl_x
    /\ RestUnchanged({"sl"})

NextSplit == SplitList

SpecSplit == InitSplit /\ [][NextSplit]_vars

(***************************************************************************)
(* fetch_company: the search, the page request and the parse of the        *)
(* page's wikitext.  The responses of the Wikipedia API are inputs.        *)
(***************************************************************************)
\* _search_company's request: results, no result, or a RequestException
SearchResponses == {"results", "empty", "error"}

WikipediaUrl == "https://en.wikipedia.org/wiki/Google"

Extract == "Google LLC is a technology company."

\* the wikitexts a page response carries
FetchPages == [marker : {[lead |-> "", mark |-> "{{Infobox company", kind |-> "company"]},
               layout : Layouts, ending : {"closed"},
               fields : {<<[key |-> "founded", value |-> "1998"]>>, GoogleFields}]

\* _get_page_facts's request.  kind: a RequestException, no "pages", a page
\* marked missing, or a page; revisions: the key is absent, the list is
\* empty, or it holds a revision; content: the "*" slot is absent, null or
\* the wikitext of `page`
PageResponses == [kind : {"error", "no_pages", "missing", "found"},
                  fullurl : {None, Some(WikipediaUrl)},
                  extract : {None, Some(Extract)},
                  revisions : {"absent", "empty", "present"},
                  content : {"absent", "null", "text"},
                  page : FetchPages]

SummaryLimit == 500

\* page_data.get("extract", "")[:500]
Summary(extract) ==
    IF extract = None THEN ""
    ELSE SubSeq(extract[1], 1, MinOf({Len(extract[1]), SummaryLimit}))

FcInit ==
    /\ fc_pc = "start"
    /\ fc_search \in SearchResponses
    /\ fc_page_data \in PageResponses
    /\ fc_url = None
    /\ fc_summary = ""
    /\ fc_returned = "pending"
    /\ fc_raised = "none"

InitFetch == FcInit /\ RestIdle({"fc"})

\* lines 54-57 and _search_company: no title, so fetch_company returns None
SearchCompany ==
    /\ fc_pc = "start"
    /\ IF fc_search = "results"
       THEN fc_pc' = "searched" /\ UNCHANGED fc_returned
       ELSE fc_pc' = "returned" /\ fc_returned' = "None"
    /\ UNCHANGED <<fc_search, fc_page_data, fc_url, fc_summary, fc_raised>>
    /\ RestUnchanged({"fc"})

\* _get_page_facts up to the call of _parse_infobox (lines 104-127)
GetPageFacts ==
    /\ fc_pc = "searched"
    /\ IF fc_page_data.kind # "found"
       THEN /\ fc_pc' = "returned"
            /\ fc_returned' = "None"
            /\ UNCHANGED <<fc_url, fc_summary, fc_raised, parse_vars>>
       ELSE /\ fc_url' = fc_page_data.fullurl
            /\ fc_summary' = Summary(fc_page_data.extract)
            /\ IF fc_page_data.revisions # "present"
               THEN \* "if revisions:" is false: the facts are returned unparsed
                    /\ fc_pc' = "returned"
                    /\ fc_returned' = "facts"
                    /\ UNCHANGED <<fc_raised, parse_vars>>
               ELSE IF fc_page_data.content = "null"
               THEN \* re.search(pattern, None) raises TypeError, which is no
                    \* RequestException
                    /\ fc_pc' = "raised"
                    /\ fc_raised' = "TypeError"
                    /\ UNCHANGED <<fc_returned, parse_vars>>
               ELSE /\ fc_pc' = "parsing"
                    /\ pc' = "start"
                    /\ IF fc_page_data.content = "absent"
                       THEN wikitext' = "" /\ UNCHANGED page
                       ELSE wikitext' = TextOf(fc_page_data.page) /\ page' = fc_page_data.page
                    /\ UNCHANGED <<fc_returned, fc_raised, infobox_text, parts, lines,
                                   current_key, current_value, facts, yielded>>
    /\ UNCHANGED <<fc_search, fc_page_data>>
    /\ RestUnchanged({"fc", "parse"})

\* line 129: "return facts" once _parse_infobox has returned
ReturnFacts ==
    /\ fc_pc = "parsing"
    /\ pc = "done"
    /\ fc_pc' = "returned"
    /\ fc_returned' = "facts"
    /\ UNCHANGED <<fc_search, fc_page_data, fc_url, fc_summary, fc_raised>>
    /\ RestUnchanged({"fc"})

NextFetch == SearchCompany \/ GetPageFacts \/ Next \/ ReturnFacts

SpecFetch == InitFetch /\ [][NextFetch]_vars

(***************************************************************************)
(* Two calls of _parse_infobox on one WikipediaFetcher, each with its own  *)
(* CompanyFacts, run by two threads.  The locals of a call are a record of *)
(* its own; the list and dict objects live in a heap and the facts hold    *)
(* references to them; cc_self holds the attributes of the fetcher.        *)
(***************************************************************************)
Calls == {"a", "b"}

ContainerAttrs == {"founders", "products", "raw_infobox"}

\* a mutable default held by the class: one object for every CompanyFacts
SharedDefault(c, attr) == <<"class", attr, 0>>

\* field(default_factory=...): an object of its own for each CompanyFacts
DefaultFactory(c, attr) == <<c, attr, 0>>

\* WikipediaFetcher.__init__: the attributes of the fetcher
NewFetcher == [session |-> "session"]

CallFields == {
    <<[key |-> "founder",  value |-> "Larry Page, Sergey Brin"],
      [key |-> "industry", value |-> "Technology"]>>,
    <<[key |-> "products", value |-> "Kindle, Echo"],
      [key |-> "founder",  value |-> "Jeff Bezos"],
      [key |-> "website",  value |-> "{{URL|amazon.com}}"]>> }

CallPages == [marker : {[lead |-> "", mark |-> "{{Infobox company", kind |-> "company"]},
              layout : Layouts, ending : {"closed"}, fields : CallFields]
             \cup {[marker |-> [lead |-> "", mark |-> "{{Infobox company", kind |-> "company"],
                    layout |-> "line", ending |-> "closed", fields |-> GoogleFields]}

NoField == [key |-> "", raw_value |-> "", value |-> ""]

\* the frame of a call of _parse_infobox(wikitext, facts) with a new CompanyFacts
NewCall(c, p) ==
    [pc |-> "start", ret |-> "done", wikitext |-> TextOf(p), parts |-> <<>>,
     lines |-> <<>>, current_key |-> None, current_value |-> <<>>,
     field |-> NoField, allocated |-> 0,
     facts |-> [NewFacts EXCEPT !.founders = DefaultFactory(c, "founders"),
                                !.products = DefaultFactory(c, "products"),
                                !.raw_infobox = DefaultFactory(c, "raw_infobox")]]

\* the containers the two CompanyFacts are constructed with
NewHeap == [id \in {DefaultFactory(c, attr) : c \in Calls, attr \in ContainerAttrs} |->
               IF id[2] = "raw_infobox" THEN EmptyDict ELSE <<>>]

\* the facts with the contents of their containers
Deref(f, heap) ==
    [f EXCEPT !.founders = heap[@], !.products = heap[@], !.raw_infobox = heap[@]]

\* lines 138-173 in the frame of one call
LocateCall(call) ==
    LET Body(remaining) == SubSeq(remaining, 1, end_pos(remaining))
        Parse(start_pos, text) ==
            IF start_pos = -1 THEN [call EXCEPT !.pc = "done"]
            ELSE IF is_single_line(text)
            THEN [call EXCEPT !.pc = "single", !.parts = Split(text, {"|"})]
            ELSE [call EXCEPT !.pc = "multi", !.lines = Split(text, {"\n"})]
        Found(start_pos) == Parse(start_pos, Body(From(call.wikitext, start_pos + 1)))
    IN  Found(infobox_start_end(call.wikitext))

\* the call of _process_infobox_field up to "if not value: return"
EnterField(call, key, raw_value, ret) ==
    LET Enter(value) ==
            IF value = "" THEN [call EXCEPT !.pc = ret]
            ELSE [call EXCEPT !.pc = "store", !.ret = ret,
                              !.field = [key |-> key, raw_value |-> raw_value,
                                         value |-> value]]
    IN  Enter(normalize_value(raw_value))

\* lines 179-185: one iteration of "for part in parts"
PartCall(call) ==
    LET Iterate(part, ret) ==
            IF PartIsField(part)
            THEN EnterField([call EXCEPT !.parts = Tail(@)], PartKey(part),
                            PartValue(part), ret)
            ELSE [call EXCEPT !.parts = Tail(@), !.pc = ret]
    IN  Iterate(Head(call.parts), IF Tail(call.parts) = <<>> THEN "done" ELSE "single")

\* lines 195-206: one iteration of "for line in lines"
LineCall(call) ==
    LET Iterate(line) ==
            IF FieldMatches(line)
            THEN IF FieldInProgress(call.current_key, call.current_value)
                 THEN EnterField([call EXCEPT !.lines = Tail(@),
                                              !.current_key = Some(FieldKey(line)),
                                              !.current_value = <<FieldRest(line)>>],
                                 call.current_key[1], Join(call.current_value, " "),
                                 "multi")
                 ELSE [call EXCEPT !.lines = Tail(@),
                                   !.current_key = Some(FieldKey(line)),
                                   !.current_value = <<FieldRest(line)>>]
            ELSE IF IsContinuation(call.current_key, line)
            THEN [call EXCEPT !.lines = Tail(@),
                              !.current_value = Append(@, Strip(line))]
            ELSE [call EXCEPT !.lines = Tail(@)]
    IN  Iterate(Head(call.lines))

\* lines 208-210: "Process last field"
LastCall(call) ==
    IF FieldInProgress(call.current_key, call.current_value)
    THEN EnterField(call, call.current_key[1], Join(call.current_value, " "), "done")
    ELSE [call EXCEPT !.pc = "done"]

\* line 220: facts.raw_infobox[key] = value writes into the dict object
StoreRawHeap(call, heap) ==
    [heap EXCEPT ![call.facts.raw_infobox] = (call.field.key :> call.field.value) @@ @]

\* the attribute of a key whose value is a new list (lines 225-226, 231-232)
ListAttr(key) ==
    IF key = "founder" THEN "founders"
    ELSE IF key \in {"products", "services"} THEN "products"
    ELSE "none"

\* the facts of a call after the if/elif chain of lines 222-242
MappedFacts(call, heap) ==
    MapField(call.field.key, call.field.raw_value, call.field.value,
             Deref(call.facts, heap))

\* the list object _split_list returns to the call
NewList(c, call) == <<c, ListAttr(call.field.key), call.allocated + 1>>

MapFieldCall(c, call, heap) ==
    IF ListAttr(call.field.key) = "none"
    THEN [call EXCEPT !.pc = call.ret,
                      !.facts = [MappedFacts(call, heap) EXCEPT
                                     !.founders = call.facts.founders,
                                     !.products = call.facts.products,
                                     !.raw_infobox = call.facts.raw_infobox]]
    ELSE [call EXCEPT !.pc = call.ret, !.allocated = @ + 1,
                      !.facts[ListAttr(call.field.key)] = NewList(c, call)]

MapFieldHeap(c, call, heap) ==
    IF ListAttr(call.field.key) = "none" THEN heap
    ELSE (NewList(c, call) :> MappedFacts(call, heap)[ListAttr(call.field.key)]) @@ heap

CcInit ==
    /\ cc_pages \in [Calls -> CallPages]
    /\ cc_calls = [c \in Calls |-> NewCall(c, cc_pages[c])]
    /\ cc_heap = NewHeap
    /\ cc_self = NewFetcher
    /\ cc_overlapped = [c \in Calls |-> FALSE]

InitCalls == CcInit /\ RestIdle({"cc"})

\* the call takes a step while another call is between its first and last step
Overlap(c) ==
    cc_overlapped' = [cc_overlapped EXCEPT ![c] =
        @ \/ \E d \in Calls \ {c} : cc_calls[d].pc \notin {"start", "done"}]

CallLocate ==
    \E c \in Calls :
        /\ cc_calls[c].pc = "start"
        /\ cc_calls' = [cc_calls EXCEPT ![c] = LocateCall(@)]
        /\ Overlap(c)
        /\ UNCHANGED <<cc_pages, cc_heap, cc_self>>
        /\ RestUnchanged({"cc"})

CallPart ==
    \E c \in Calls :
        /\ cc_calls[c].pc = "single"
        /\ cc_calls' = [cc_calls EXCEPT ![c] = PartCall(@)]
        /\ Overlap(c)
        /\ UNCHANGED <<cc_pages, cc_heap, cc_self>>
        /\ RestUnchanged({"cc"})

CallLine ==
    \E c \in Calls :
        /\ cc_calls[c].pc = "multi"
        /\ cc_calls[c].lines # <<>>
        /\ cc_calls' = [cc_calls EXCEPT ![c] = LineCall(@)]
        /\ Overlap(c)
        /\ UNCHANGED <<cc_pages, cc_heap, cc_self>>
        /\ RestUnchanged({"cc"})

CallLast ==
    \E c \in Calls :
        /\ cc_calls[c].pc = "multi"
        /\ cc_calls[c].lines = <<>>
        /\ cc_calls' = [cc_calls EXCEPT ![c] = LastCall(@)]
        /\ Overlap(c)
        /\ UNCHANGED <<cc_pages, cc_heap, cc_self>>
        /\ RestUnchanged({"cc"})

CallStoreRaw ==
    \E c \in Calls :
        /\ cc_calls[c].pc = "store"
        /\ cc_heap' = StoreRawHeap(cc_calls[c], cc_heap)
        /\ cc_calls' = [cc_calls EXCEPT ![c].pc = "map"]
        /\ Overlap(c)
        /\ UNCHANGED <<cc_pages, cc_self>>
        /\ RestUnchanged({"cc"})

CallMapField ==
    \E c \in Calls :
        /\ cc_calls[c].pc = "map"
        /\ cc_heap' = MapFieldHeap(c, cc_calls[c], cc_heap)
        /\ cc_calls' = [cc_calls EXCEPT ![c] = MapFieldCall(c, @, cc_heap)]
        /\ Overlap(c)
        /\ UNCHANGED <<cc_pages, cc_self>>
        /\ RestUnchanged({"cc"})

NextCalls == CallLocate \/ CallPart \/ CallLine \/ CallLast \/ CallStoreRaw \/ CallMapField

SpecCalls == InitCalls /\ [][NextCalls]_vars

(***************************************************************************)
(* scrapers/backoff.py: BackoffConfig.calculate_delay.  Delays are whole   *)
(* seconds; jitter and the value of random.random() are hundredths; the    *)
(* delay returned is in units of 1/Scale of a second, so that              *)
(* delay + delay * jitter * random.random() is exact.                      *)
(***************************************************************************)
Hundred == 100

\* one second in the units of the returned delay
Scale == Hundred * Hundred

DefaultInitialDelay == 1
DefaultMaxDelay == 60
DefaultMultiplier == 2
DefaultJitter == 10

\* BackoffConfig()
DefaultConfig == [initial_delay |-> DefaultInitialDelay, max_delay |-> DefaultMaxDelay,
                  multiplier |-> DefaultMultiplier, jitter |-> DefaultJitter]

\* the configurations of test_backoff.py and two with other steps and caps
Configs == {DefaultConfig,
            [DefaultConfig EXCEPT !.jitter = 0],
            [DefaultConfig EXCEPT !.initial_delay = 10],
            [DefaultConfig EXCEPT !.multiplier = 3, !.max_delay = 50, !.jitter = 0],
            [DefaultConfig EXCEPT !.multiplier = 1, !.jitter = 50]}

\* values of random.random(), which lies in [0.0, 1.0)
Randoms == {0, 50, 99}

RECURSIVE Pow(_, _)
Pow(m, n) == IF n = 0 THEN 1 ELSE m * Pow(m, n - 1)

\* line 25: min(initial_delay * multiplier ** attempt, max_delay), in seconds
CappedDelay(config, attempt) ==
    MinOf({config.initial_delay * Pow(config.multiplier, attempt), config.max_delay})

\* a delay with no jitter added
DelayWithoutJitter(config, attempt, rnd) == CappedDelay(config, attempt) * Scale

\* lines 25-28, with rnd the value random.random() returns
calculate_delay(config, attempt, rnd) ==
    LET Jittered(delay) == delay * Scale + delay * config.jitter * rnd
    IN  Jittered(CappedDelay(config, attempt))

MaxAttempt == 7

CdInit ==
    /\ cd_pc = "start"
    /\ cd_config \in Configs
    /\ cd_attempt \in 0..MaxAttempt
    /\ cd_random \in Randoms
    /\ cd_delay = 0

InitDelay == CdInit /\ RestIdle({"cd"})

CalculateDelay ==
    /\ cd_pc = "start"
    /\ cd_delay' = calculate_delay(cd_config, cd_attempt, cd_random)
    /\ cd_pc' = "done"
    /\ UNCHANGED <<cd_config, cd_attempt, cd_random>>
    /\ RestUnchanged({"cd"})

NextDelay == CalculateDelay

SpecDelay == InitDelay /\ [][NextDelay]_vars

(***************************************************************************)
(* scrapers/backoff.py: exponential_backoff.  func and on_retry are the    *)
(* caller's: what a call of them does is an input of the step that makes   *)
(* the call.  bo_trace lists the calls of func, on_retry and time.sleep.   *)
(***************************************************************************)
MaxAttempts == 3

\* a call of func returns, raises an Exception, or raises a BaseException
\* that is no Exception (KeyboardInterrupt, SystemExit)
FuncOutcomes == {"returns", "Exception", "BaseException"}

CallbackOutcomes == {"returns", "Exception"}

BackoffConfigs == {DefaultConfig, [DefaultConfig EXCEPT !.jitter = 0]}

BackoffRandoms == {0, 99}

\* a loop that runs its body once more than range(max_attempts)
InRangeInclusive(attempt, max_attempts) == attempt <= max_attempts

\* line 54: for attempt in range(max_attempts)
InRange(attempt, max_attempts) == attempt < max_attempts

\* a test that takes every failed attempt for one that is retried
AnyAttempt(attempt, max_attempts) == TRUE

\* line 59: if attempt < max_attempts - 1
HasNextAttempt(attempt, max_attempts) == attempt < max_attempts - 1

\* the exception the call of func of this attempt raises
Raised(by, attempt, type) == Some([by |-> by, attempt |-> attempt, type |-> type])

BoInit ==
    /\ bo_pc = "loop"
    /\ bo_max_attempts \in 0..MaxAttempts
    /\ bo_config \in BackoffConfigs
    /\ bo_on_retry \in {"none", "given"}
    /\ bo_attempt = 0
    /\ bo_delay = 0
    /\ bo_last_exception = None
    /\ bo_trace = <<>>
    /\ bo_result = None
    /\ bo_raised = None

InitBackoff == BoInit /\ RestIdle({"bo"})

\* lines 55-60 and 68-69: the call of func and what follows it up to the
\* next call of on_retry or time.sleep
CallFunc ==
    /\ bo_pc = "loop"
    /\ InRange(bo_attempt, bo_max_attempts)
    /\ \E outcome \in FuncOutcomes : \E rnd \in BackoffRandoms :
         /\ bo_trace' = Append(bo_trace, [call |-> "func", attempt |-> bo_attempt,
                                          outcome |-> outcome, delay |-> 0])
         /\ CASE outcome = "returns" ->
                   /\ bo_pc' = "returned"
                   /\ bo_result' = Some([of |-> "func", attempt |-> bo_attempt])
                   /\ UNCHANGED <<bo_attempt, bo_delay, bo_last_exception, bo_raised>>
              [] outcome = "BaseException" ->
                   /\ bo_pc' = "raised"
                   /\ bo_raised' = Raised("func", bo_attempt, outcome)
                   /\ UNCHANGED <<bo_attempt, bo_delay, bo_last_exception, bo_result>>
              [] outcome = "Exception" ->
                   /\ bo_last_exception' = Raised("func", bo_attempt, outcome)
                   /\ IF HasNextAttempt(bo_attempt, bo_max_attempts)
                      THEN /\ bo_delay' = calculate_delay(bo_config, bo_attempt, rnd)
                           /\ bo_pc' = "retry"
                           /\ UNCHANGED bo_attempt
                      ELSE /\ bo_attempt' = bo_attempt + 1
                           /\ UNCHANGED <<bo_pc, bo_delay>>
                   /\ UNCHANGED <<bo_result, bo_raised>>
    /\ UNCHANGED <<bo_max_attempts, bo_config, bo_on_retry>>
    /\ RestUnchanged({"bo"})

\* lines 65-66: if on_retry: on_retry(attempt, e)
OnRetry ==
    /\ bo_pc = "retry"
    /\ IF bo_on_retry = "none"
       THEN /\ bo_pc' = "sleep"
            /\ UNCHANGED <<bo_trace, bo_raised>>
       ELSE \E outcome \in CallbackOutcomes :
              /\ bo_trace' = Append(bo_trace, [call |-> "on_retry", attempt |-> bo_attempt,
                                               outcome |-> outcome, delay |-> 0,
                                               exception |-> bo_last_exception])
              /\ IF outcome = "returns"
                 THEN bo_pc' = "sleep" /\ UNCHANGED bo_raised
                 ELSE /\ bo_pc' = "raised"
                      /\ bo_raised' = Raised("on_retry", bo_attempt, outcome)
    /\ UNCHANGED <<bo_max_attempts, bo_config, bo_on_retry, bo_attempt, bo_delay,
                   bo_last_exception, bo_result>>
    /\ RestUnchanged({"bo"})

\* line 67: time.sleep(delay), then the next attempt
Sleep ==
    /\ bo_pc = "sleep"
    /\ bo_trace' = Append(bo_trace, [call |-> "sleep", attempt |-> bo_attempt,
                                     outcome |-> "returns", delay |-> bo_delay])
    /\ bo_attempt' = bo_attempt + 1
    /\ bo_pc' = "loop"
    /\ UNCHANGED <<bo_max_attempts, bo_config, bo_on_retry, bo_delay, bo_last_exception,
                   bo_result, bo_raised>>
    /\ RestUnchanged({"bo"})

\* line 71: return None
ReturnNone ==
    /\ bo_pc = "loop"
    /\ ~InRange(bo_attempt, bo_max_attempts)
    /\ bo_pc' = "returned"
    /\ bo_result' = None
    /\ UNCHANGED <<bo_max_attempts, bo_config, bo_on_retry, bo_attempt, bo_delay,
                   bo_last_exception, bo_trace, bo_raised>>
    /\ RestUnchanged({"bo"})

NextBackoff == CallFunc \/ OnRetry \/ Sleep \/ ReturnNone

SpecBackoff == InitBackoff /\ [][NextBackoff]_vars

(***************************************************************************)
(* ScraperStorage.store_items and TriviaStorage.store_items.  What the     *)
(* write of an item does is an input of the iteration that makes it.       *)
(***************************************************************************)
MaxItems == 3

Storages == {"scraper", "trivia"}

\* the items of a storage: a ScrapedItem, or a TriviaItem with a question
\* (quiz) or without one (factoid)
ItemKinds(storage) == IF storage = "scraper" THEN {"scraped"} ELSE {"quiz", "factoid"}

ItemLists(storage) == UNION {[1..n -> ItemKinds(storage)] : n \in 0..MaxItems}

\* execute() returns a result with data (the row was inserted) or without
\* (the conflict was ignored), or raises: a duplicate key error or another
WriteOutcomes == {"inserted", "ignored", "duplicate_error", "error"}

\* trivia/storage.py lines 78-86: upsert when the item has a question
WriteCall(storage, kind) == IF kind = "factoid" THEN "insert" ELSE "upsert"

\* "if result.data: new_count += 1"
CountNew(outcome, new_count) ==
    IF outcome = "inserted" THEN new_count + 1 ELSE new_count

\* a count of the ignored conflicts that leaves the failing items out
CountIgnored(outcome, dup_count) ==
    IF outcome = "ignored" THEN dup_count + 1 ELSE dup_count

\* "else: dup_count += 1" and the dup_count += 1 of the except clauses
CountSkipped(outcome, dup_count) ==
    IF outcome = "inserted" THEN dup_count ELSE dup_count + 1

StInit ==
    /\ st_pc = "loop"
    /\ st_storage \in Storages
    /\ st_items \in ItemLists(st_storage)
    /\ st_new_count = 0
    /\ st_dup_count = 0
    /\ st_writes = <<>>
    /\ st_returned = None

InitStore == StInit /\ RestIdle({"st"})

\* one iteration of "for item in items": the write and the count
StoreItem ==
    /\ st_pc = "loop"
    /\ Len(st_writes) < Len(st_items)
    /\ \E outcome \in WriteOutcomes :
         /\ st_writes' = Append(st_writes,
                [item |-> Len(st_writes) + 1,
                 call |-> WriteCall(st_storage, st_items[Len(st_writes) + 1]),
                 outcome |-> outcome])
         /\ st_new_count' = CountNew(outcome, st_new_count)
         /\ st_dup_count' = CountSkipped(outcome, st_dup_count)
    /\ UNCHANGED <<st_pc, st_storage, st_items, st_returned>>
    /\ RestUnchanged({"st"})

\* return new_count, dup_count
ReturnCounts ==
    /\ st_pc = "loop"
    /\ Len(st_writes) = Len(st_items)
    /\ st_pc' = "returned"
    /\ st_returned' = Some(<<st_new_count, st_dup_count>>)
    /\ UNCHANGED <<st_storage, st_items, st_new_count, st_dup_count, st_writes>>
    /\ RestUnchanged({"st"})

NextStore == StoreItem \/ ReturnCounts

SpecStore == InitStore /\ [][NextStore]_vars

(***************************************************************************)
(* TriviaStorage.store_items run twice on one list of items against the    *)
(* company_trivia table.  The table has the unique constraint the upsert   *)
(* names, (company_slug, question); its definition is not part of the      *)
(* sources, so whether two NULL questions conflict is an input.            *)
(***************************************************************************)
MaxTriviaItems == 2

Runs == 2

\* nulls_distinct: the default of a unique constraint, a NULL question
\* conflicts with no row; nulls_equal: NULLS NOT DISTINCT
Schemas == {"nulls_distinct", "nulls_equal"}

\* the items generator.py makes: quiz and flashcard with a question,
\* factoid with question None; and a quiz whose question is empty
TriviaPool == {
    [company_slug |-> "google", format |-> "quiz",      question |-> Some("When was Google founded?")],
    [company_slug |-> "google", format |-> "flashcard", question |-> Some("Who founded Google?")],
    [company_slug |-> "meta",   format |-> "quiz",      question |-> Some("Who founded Google?")],
    [company_slug |-> "google", format |-> "factoid",   question |-> None],
    [company_slug |-> "google", format |-> "quiz",      question |-> Some("")] }

TriviaLists == UNION {[1..n -> TriviaPool] : n \in 1..MaxTriviaItems}

\* a row of the table that conflicts with the item on (company_slug, question)
Conflicts(schema, rows, item) ==
    \E i \in 1..Len(rows) :
        /\ rows[i].company_slug = item.company_slug
        /\ rows[i].question = item.question
        /\ (item.question # None \/ schema = "nulls_equal")

\* "if item.question:" : neither None nor the empty string
HasQuestion(item) == item.question # None /\ item.question[1] # ""

\* lines 78-86: upsert(on_conflict, ignore_duplicates=True) for an item with
\* a question, insert for any other; the outcome of execute()
WriteOutcome(schema, rows, item) ==
    IF ~Conflicts(schema, rows, item) THEN "inserted"
    ELSE IF HasQuestion(item) THEN "ignored"
    ELSE "duplicate_error"

TrInit ==
    /\ tr_pc = "loop"
    /\ tr_schema \in Schemas
    /\ tr_items \in TriviaLists
    /\ tr_rows = <<>>
    /\ tr_run = 1
    /\ tr_done = 0
    /\ tr_new_count = 0
    /\ tr_dup_count = 0
    /\ tr_returned = <<>>
    /\ tr_rows_first = <<>>

InitRuns == TrInit /\ RestIdle({"tr"})

\* one iteration of "for item in items" (lines 62-100)
StoreTrivia ==
    /\ tr_pc = "loop"
    /\ tr_done < Len(tr_items)
    /\ LET Write(item, outcome) ==
               /\ tr_rows' = IF outcome = "inserted" THEN Append(tr_rows, item) ELSE tr_rows
               /\ tr_new_count' = CountNew(outcome, tr_new_count)
               /\ tr_dup_count' = CountSkipped(outcome, tr_dup_count)
           Store(item) == Write(item, WriteOutcome(tr_schema, tr_rows, item))
       IN  Store(tr_items[tr_done + 1])
    /\ tr_done' = tr_done + 1
    /\ UNCHANGED <<tr_pc, tr_schema, tr_items, tr_run, tr_returned, tr_rows_first>>
    /\ RestUnchanged({"tr"})

\* line 102: return new_count, dup_count; then the next run is started
ReturnRun ==
    /\ tr_pc = "loop"
    /\ tr_done = Len(tr_items)
    /\ tr_returned' = Append(tr_returned, <<tr_new_count, tr_dup_count>>)
    /\ IF tr_run < Runs
       THEN /\ tr_run' = tr_run + 1
            /\ tr_rows_first' = tr_rows
            /\ tr_done' = 0
            /\ tr_new_count' = 0
            /\ tr_dup_count' = 0
            /\ UNCHANGED tr_pc
       ELSE /\ tr_pc' = "done"
            /\ UNCHANGED <<tr_run, tr_rows_first, tr_done, tr_new_count, tr_dup_count>>
    /\ UNCHANGED <<tr_schema, tr_items, tr_rows>>
    /\ RestUnchanged({"tr"})

NextRuns == StoreTrivia \/ ReturnRun

SpecRuns == InitRuns /\ [][NextRuns]_vars

(***************************************************************************)
(* scrapers/glassdoor.py: GlassdoorScraper.scrape, search_employer and     *)
(* scrape_interviews.  A response is what session.get gives: an exception, *)
(* or a status and a body; of the body the model keeps its text, whether   *)
(* it links an employer, and its reviews, each parsed or failing to parse. *)
(***************************************************************************)
BlockedIndicators == {"captcha", "blocked", "rate limit", "too many requests",
                      "access denied", "please verify you are a human"}

\* a check that knows 403 Forbidden only
CheckForForbidden(response) == response.status = 403

\* _check_for_block raises GlassdoorBlockedError
check_for_block(response) ==
    \/ \E indicator \in BlockedIndicators : Contains(Lower(response.text), indicator)
    \/ response.status = 403
    \/ response.status = 429

ReviewsPerPage == 10

\* line 173: max_pages = (limit // 10) + 1
max_pages(limit) == (limit \div ReviewsPerPage) + 1

Limits == {0, 1, 2, 10, 11, 25}

Reviews(n, outcome) == [i \in 1..n |-> outcome]

\* the reviews of a page: none, the two of INTERVIEW_PAGE_HTML, one that
\* fails to parse among two that parse, a full page, and a longer one
PageReviews == {<<>>, Reviews(2, "item"), <<"item", "exception", "item">>,
                Reviews(ReviewsPerPage, "item"), Reviews(ReviewsPerPage + 2, "item")}

BodyTexts == {"", "Forbidden", "Complete the CAPTCHA to continue"}

Statuses == {200, 403, 429}

RequestError == [kind |-> "exception", status |-> 0, text |-> "", employer |-> FALSE,
                 reviews |-> <<>>]

SearchPages == {RequestError} \cup
               [kind : {"response"}, status : Statuses, text : BodyTexts,
                employer : BOOLEAN, reviews : {<<>>}]

InterviewPages == {RequestError} \cup
                  [kind : {"response"}, status : Statuses, text : BodyTexts,
                   employer : {FALSE}, reviews : PageReviews]

\* every review is appended, whatever the limit
RECURSIVE TakeAllReviews(_, _, _, _, _)
TakeAllReviews(items, reviews, k, page_no, limit) ==
    IF k > Len(reviews) THEN items
    ELSE TakeAllReviews(IF reviews[k] = "item"
                        THEN Append(items, [page |-> page_no, review |-> k])
                        ELSE items,
                        reviews, k + 1, page_no, limit)

\* lines 199-209: "for review in reviews", up to limit items
RECURSIVE TakeReviews(_, _, _, _, _)
TakeReviews(items, reviews, k, page_no, limit) ==
    IF k > Len(reviews) \/ Len(items) >= limit THEN items
    ELSE TakeReviews(IF reviews[k] = "item"
                     THEN Append(items, [page |-> page_no, review |-> k])
                     ELSE items,
                     reviews, k + 1, page_no, limit)

GdInit ==
    /\ gd_pc = "search"
    /\ gd_limit \in Limits
    /\ gd_page = 1
    /\ gd_items = <<>>
    /\ gd_responses = <<>>
    /\ gd_returned = None
    /\ gd_raised = None

InitScrape == GdInit /\ RestIdle({"gd"})

\* scrape lines 278-283 and search_employer: the search request
SearchEmployer ==
    /\ gd_pc = "search"
    /\ \E response \in SearchPages :
         /\ gd_responses' = Append(gd_responses, response)
         /\ IF response.kind = "exception"
            THEN gd_pc' = "returned" /\ gd_returned' = Some(<<>>)
            ELSE IF check_for_block(response)
            THEN gd_pc' = "blocked" /\ UNCHANGED gd_returned
            ELSE IF ~response.employer
            THEN gd_pc' = "returned" /\ gd_returned' = Some(<<>>)
            ELSE gd_pc' = "pages" /\ UNCHANGED gd_returned
    /\ UNCHANGED <<gd_limit, gd_page, gd_items, gd_raised>>
    /\ RestUnchanged({"gd"})

\* lines 175-217: one iteration of "while len(items) < limit and page <= max_pages"
FetchPage ==
    /\ gd_pc = "pages"
    /\ Len(gd_items) < gd_limit
    /\ gd_page <= max_pages(gd_limit)
    /\ \E response \in InterviewPages :
         /\ gd_responses' = Append(gd_responses, response)
         /\ IF response.kind = "exception"
            THEN gd_pc' = "break" /\ UNCHANGED <<gd_items, gd_page>>
            ELSE IF check_for_block(response)
            THEN gd_pc' = "blocked" /\ UNCHANGED <<gd_items, gd_page>>
            ELSE IF response.reviews = <<>>
            THEN gd_pc' = "break" /\ UNCHANGED <<gd_items, gd_page>>
            ELSE /\ gd_items' = TakeReviews(gd_items, response.reviews, 1, gd_page, gd_limit)
                 /\ gd_page' = gd_page + 1
                 /\ UNCHANGED gd_pc
    /\ UNCHANGED <<gd_limit, gd_returned, gd_raised>>
    /\ RestUnchanged({"gd"})

\* line 219 and scrape line 286: return items
ReturnItems ==
    /\ \/ gd_pc = "break"
       \/ gd_pc = "pages" /\ ~(Len(gd_items) < gd_limit /\ gd_page <= max_pages(gd_limit))
    /\ gd_pc' = "returned"
    /\ gd_returned' = Some(gd_items)
    /\ UNCHANGED <<gd_limit, gd_page, gd_items, gd_responses, gd_raised>>
    /\ RestUnchanged({"gd"})

\* scrape lines 292-297: except GlassdoorBlockedError: return []
CatchBlocked ==
    /\ gd_pc = "blocked"
    /\ gd_pc' = "returned"
    /\ gd_returned' = Some(<<>>)
    /\ UNCHANGED <<gd_limit, gd_page, gd_items, gd_responses, gd_raised>>
    /\ RestUnchanged({"gd"})

NextScrape == SearchEmployer \/ FetchPage \/ ReturnItems \/ CatchBlocked

SpecScrape == InitScrape /\ [][NextScrape]_vars

\* every call made is let run to its end
SpecScrapeFair == SpecScrape /\ WF_vars(NextScrape)

(***************************************************************************)
(* trivia/generator.py: QuizGenerator._call_openai_for_quiz.  The response *)
(* of the model is an input: the API call raises, the content is None or   *)
(* empty, is no JSON, is a JSON list, or is a JSON object.                 *)
(***************************************************************************)
MaxOptions == 4

QuizKeys == {"question", "answer", "options"}

Answers == {"A", "B", "C"}

OptionLists == UNION {[1..n -> Answers] : n \in 0..MaxOptions}

\* the objects with the key or without it
WithOrWithout(key, values) == UNION {[keys -> values] : keys \in SUBSET {key}}

\* the JSON objects: any of the three keys, any list of options
QuizObjects ==
    {q @@ a @@ o : q \in WithOrWithout("question", {"Q?"}),
                   a \in WithOrWithout("answer", {"A"}),
                   o \in WithOrWithout("options", OptionLists)}

ModelResponses ==
    [kind : {"api_error", "no_content", "not_json", "json_list"}, object : {<<>>}]
    \cup [kind : {"json_object"}, object : QuizObjects]

ExpectedOptions == 3

\* lines 371-394: the result for a response of the model
call_openai_for_quiz(response) ==
    IF response.kind # "json_object" THEN None
    ELSE IF ~(QuizKeys \subseteq DOMAIN response.object) THEN None
    ELSE IF Len(response.object["options"]) # ExpectedOptions THEN None
    ELSE Some(response.object)

QzInit ==
    /\ qz_pc = "start"
    /\ qz_response \in ModelResponses
    /\ qz_result = None

InitQuiz == QzInit /\ RestIdle({"qz"})

CallOpenAIForQuiz ==
    /\ qz_pc = "start"
    /\ qz_result' = call_openai_for_quiz(qz_response)
    /\ qz_pc' = "done"
    /\ UNCHANGED qz_response
    /\ RestUnchanged({"qz"})

NextQuiz == CallOpenAIForQuiz

SpecQuiz == InitQuiz /\ [][NextQuiz]_vars

(***************************************************************************)
(* fetch_trends.main: up to MaxTrendRuns runs of the script, one after the *)
(* other, on the same progress file.  Each run has its own --resume,       *)
(* --companies and --roles arguments; every request to Google Trends       *)
(* returns a volume, fails, or is blocked.                                 *)
(***************************************************************************)
MaxTrendRuns == 2

\* the slugs of companies.json and of roles.json, in file order
AllCompanies == <<"google", "apple">>

AllRoles == <<"software-engineer", "product-manager">>

\* --companies and --roles: an int, 0 standing for an absent argument
CompanyLimits == {0, 1}

RoleLimits == {0, 1}

\* "if limit: items = items[:limit]" of load_companies and load_roles
Limited(items, limit) ==
    IF limit # 0 THEN SubSeq(items, 1, MinOf({limit, Len(items)})) ELSE items

load_companies(limit) == Limited(AllCompanies, limit)

load_roles(limit) == Limited(AllRoles, limit)

EmptyProgress == [processed_companies |-> <<>>, results |-> EmptyDict]

\* load_progress: the file if it exists, an empty progress otherwise
load_progress(file) == IF file # None THEN file[1] ELSE EmptyProgress

\* what a request to Google Trends does
FetchOutcomes == {"volume", "empty", "error", "blocked"}

\* fetch_interest: the average interest, 0 for empty data and for errors
\* other than a block, None for a raised BlockedError
fetch_interest(outcome) ==
    CASE outcome = "volume"  -> Some(85)
      [] outcome = "empty"   -> Some(0)
      [] outcome = "error"   -> Some(0)
      [] outcome = "blocked" -> None

\* a test that never skips a company
NeverProcessed(slug, progress) == FALSE

\* "if slug in progress['processed_companies']"
AlreadyProcessed(slug, progress) ==
    \E k \in 1..Len(progress.processed_companies) : progress.processed_companies[k] = slug

FtInit ==
    /\ ft_pc = "idle"
    /\ ft_run = 0
    /\ ft_file = None
    /\ ft_companies = <<>>
    /\ ft_roles = <<>>
    /\ ft_progress = None
    /\ ft_loaded = None
    /\ ft_i = 0
    /\ ft_interview_volume = 0
    /\ ft_role_data = <<>>
    /\ ft_blocked = FALSE
    /\ ft_status = "none"
    /\ ft_fetched = {}

InitTrends == FtInit /\ RestIdle({"ft"})

\* lines 179-202: the arguments, the inputs, the progress
StartRun ==
    /\ ft_pc \in {"idle", "exited"}
    /\ ft_run < MaxTrendRuns
    /\ \E resume \in BOOLEAN, companies \in CompanyLimits, roles \in RoleLimits :
           /\ ft_companies' = load_companies(companies)
           /\ ft_roles' = load_roles(roles)
           /\ ft_progress' = Some(IF resume THEN load_progress(ft_file) ELSE EmptyProgress)
    /\ ft_loaded' = ft_progress'
    /\ ft_run' = ft_run + 1
    /\ ft_i' = 1
    /\ ft_interview_volume' = 0
    /\ ft_role_data' = <<>>
    /\ ft_blocked' = FALSE
    /\ ft_status' = "complete"
    /\ ft_fetched' = {}
    /\ ft_pc' = "company"
    /\ UNCHANGED ft_file
    /\ RestUnchanged({"ft"})

\* lines 205-211: a company that is already processed
SkipCompany ==
    /\ ft_pc = "company"
    /\ ft_i <= Len(ft_companies)
    /\ AlreadyProcessed(ft_companies[ft_i], ft_progress[1])
    /\ ft_i' = ft_i + 1
    /\ UNCHANGED <<ft_pc, ft_run, ft_file, ft_companies, ft_roles, ft_progress, ft_loaded,
                   ft_interview_volume, ft_role_data, ft_blocked, ft_status, ft_fetched>>
    /\ RestUnchanged({"ft"})

\* lines 213-231: the company-level request
FetchCompany ==
    /\ ft_pc = "company"
    /\ ft_i <= Len(ft_companies)
    /\ ~AlreadyProcessed(ft_companies[ft_i], ft_progress[1])
    /\ \E outcome \in FetchOutcomes :
           LET Fetched(volume) ==
                   IF volume = None
                   THEN /\ ft_blocked' = TRUE
                        /\ ft_status' = "blocked"
                        /\ ft_pc' = "finish"
                        /\ UNCHANGED ft_interview_volume
                   ELSE /\ ft_interview_volume' = volume[1]
                        /\ ft_pc' = "roles"
                        /\ UNCHANGED <<ft_blocked, ft_status>>
           IN  Fetched(fetch_interest(outcome))
    /\ ft_role_data' = <<>>
    /\ ft_fetched' = ft_fetched \cup {ft_companies[ft_i]}
    /\ UNCHANGED <<ft_run, ft_file, ft_companies, ft_roles, ft_progress, ft_loaded, ft_i>>
    /\ RestUnchanged({"ft"})

\* lines 232-251: one iteration of "for role in roles"
FetchRole ==
    /\ ft_pc = "roles"
    /\ Len(ft_role_data) < Len(ft_roles)
    /\ \E outcome \in FetchOutcomes :
           LET Fetched(role, volume) ==
                   IF volume = None
                   THEN /\ ft_blocked' = TRUE
                        /\ ft_status' = "blocked"
                        /\ ft_pc' = "finish"
                        /\ UNCHANGED ft_role_data
                   ELSE /\ ft_role_data' = Append(ft_role_data,
                                                  [slug |-> role, volume |-> volume[1]])
                        /\ UNCHANGED <<ft_pc, ft_blocked, ft_status>>
           IN  Fetched(ft_roles[Len(ft_role_data) + 1], fetch_interest(outcome))
    /\ UNCHANGED <<ft_run, ft_file, ft_companies, ft_roles, ft_progress, ft_loaded, ft_i,
                   ft_interview_volume, ft_fetched>>
    /\ RestUnchanged({"ft"})

\* lines 256-267: the company's result, then save_progress
SaveCompany ==
    /\ ft_pc = "roles"
    /\ Len(ft_role_data) = Len(ft_roles)
    /\ LET Saved(slug, progress) ==
               [processed_companies |-> Append(progress.processed_companies, slug),
                results |-> (slug :> [interview_volume |-> ft_interview_volume,
                                      roles |-> ft_role_data]) @@ progress.results]
       IN  ft_progress' = Some(Saved(ft_companies[ft_i], ft_progress[1]))
    /\ ft_file' = ft_progress'
    /\ ft_i' = ft_i + 1
    /\ ft_pc' = "company"
    /\ UNCHANGED <<ft_run, ft_companies, ft_roles, ft_loaded, ft_interview_volume,
                   ft_role_data, ft_blocked, ft_status, ft_fetched>>
    /\ RestUnchanged({"ft"})

\* lines 253-254, 269-298: the final status and the exit
ExitRun ==
    /\ \/ ft_pc = "finish"
       \/ ft_pc = "company" /\ ft_i > Len(ft_companies)
    /\ ft_status' = IF ft_blocked THEN "blocked"
                    ELSE IF Len(ft_progress[1].processed_companies) = Len(ft_companies)
                    THEN "complete" ELSE "partial"
    /\ ft_pc' = "exited"
    /\ UNCHANGED <<ft_run, ft_file, ft_companies, ft_roles, ft_progress, ft_loaded, ft_i,
                   ft_interview_volume, ft_role_data, ft_blocked, ft_fetched>>
    /\ RestUnchanged({"ft"})

NextTrends == StartRun \/ SkipCompany \/ FetchCompany \/ FetchRole \/ SaveCompany \/ ExitRun

SpecTrends == InitTrends /\ [][NextTrends]_vars

(***************************************************************************)
(* Properties of _parse_infobox (specification Spec)                       *)
(***************************************************************************)
Range(seq) == {seq[k] : k \in 1..Len(seq)}

CompanyPage == page.marker.kind = "company"

IndustryField == [key |-> "industry", value |-> "Tech"]

\* C1: on a page whose infobox is closed and whose field values hold only
\* balanced nested templates, the brace scan ends the body just before the
\* infobox's own closing braces, never at an inner template's, and an
\* industry=Tech field that comes after a nested template is parsed.
C1_ScanEndsAtOwnClose ==
    (pc # "start" /\ CompanyPage /\ page.ending # "open") =>
        /\ infobox_text = BodyOf(page)
        /\ (pc = "done" /\ IndustryField \in Range(page.fields)) =>
               /\ facts.industry = Some("Tech")
               /\ "industry" \in DOMAIN facts.raw_infobox

C1_Witness ==
    /\ pc = "done"
    /\ wikitext = "{{Infobox company|founded={{Start date|1998|9|4}}|industry=Tech}}"
    /\ infobox_text = "|founded={{Start date|1998|9|4}}|industry=Tech"
    /\ facts.industry = Some("Tech")

\* C2: the wikitext {{Infobox company|founded={{Start date|1998|9|4}}|industry=Tech}}
\* parsed end to end gives founding_date 1998-09-04.
C2_StartDateInInfobox ==
    (pc = "done" /\ wikitext = "{{Infobox company|founded={{Start date|1998|9|4}}|industry=Tech}}")
        => facts.founding_date = Some("1998-09-04")

\* C3: once a field has set founding_date, headquarters, industry,
\* employees, ceo or revenue, no later field changes it (first wins).
C3_FirstOccurrenceWins ==
    [][/\ facts.founding_date # None => facts'.founding_date = facts.founding_date
       /\ facts.headquarters # None => facts'.headquarters = facts.headquarters
       /\ facts.industry # None => facts'.industry = facts.industry
       /\ facts.employees # None => facts'.employees = facts.employees
       /\ facts.ceo # None => facts'.ceo = facts.ceo
       /\ facts.revenue # None => facts'.revenue = facts.revenue]_vars

FoundingKeys == {"founded", "foundation", "founding_date"}

HeadquartersKeys == {"location", "headquarters", "hq_location", "hq_location_city", "location_city"}

EmployeesKeys == {"num_employees", "employees", "num_employees_year"}

\* the attribute is unset or is raw_infobox[k] for a key k of its group
FromRaw(attr, keys) ==
    attr # None => \E k \in keys \cap DOMAIN facts.raw_infobox : facts.raw_infobox[k] = attr[1]

\* the list is empty or is the split of raw_infobox[k] for a key k of its group
ListFromRaw(list, keys) ==
    list # <<>> => \E k \in keys \cap DOMAIN facts.raw_infobox :
                       list = split_list(facts.raw_infobox[k])

\* C5: every named attribute that is set comes from a field recorded in
\* raw_infobox with the same cleaned value (the lists: with its split), and
\* ceo is set only when raw_infobox has key_people or ceo.
C5_AttributesComeFromRaw ==
    /\ FromRaw(facts.founding_date, FoundingKeys)
    /\ FromRaw(facts.headquarters, HeadquartersKeys)
    /\ FromRaw(facts.industry, {"industry"})
    /\ FromRaw(facts.employees, EmployeesKeys)
    /\ FromRaw(facts.revenue, {"revenue"})
    /\ ListFromRaw(facts.founders, {"founder"})
    /\ ListFromRaw(facts.products, {"products", "services"})
    /\ facts.ceo # None => {"key_people", "ceo"} \cap DOMAIN facts.raw_infobox # {}

C5_Witness ==
    /\ pc = "done"
    /\ {"location", "founder"} \subseteq DOMAIN facts.raw_infobox
    /\ facts.headquarters = Some("Mountain View")
    /\ facts.raw_infobox["location"] = "Mountain View"
    /\ facts.founders = <<"Larry Page", "Sergey Brin">>
    /\ facts.raw_infobox["founder"] = "Larry Page, Sergey Brin"

\* a newline with text on both sides of it
InnerNewline(text) ==
    \E j \in 1..Len(text) :
        /\ Ch(text, j) = "\n"
        /\ \E i \in 1..(j - 1) : ~IsSpace(Ch(text, i))
        /\ \E k \in (j + 1)..Len(text) : ~IsSpace(Ch(text, k))

C8_GenericInfoboxParsed ==
    (pc = "done" /\ page.marker.kind = "generic" /\ IndustryField \in Range(page.fields))
        => facts.industry = Some("Tech")

\* C9: when the braces never balance the body is the whole text after the
\* marker, every field of it still reaches the mapper, and the parse ends.
C9_UnterminatedBodyToEnd ==
    (pc # "start" /\ CompanyPage /\ page.ending = "open") =>
        /\ infobox_text = BodyOf(page) \o Trailer
        /\ infobox_text = From(wikitext, Len(page.marker.lead) + Len(page.marker.mark) + 1)
        /\ pc \in {"single", "multi", "done"}
        /\ pc = "done" => \A k \in 1..Len(page.fields) :
                              \E y \in Range(yielded) : y.key = page.fields[k].key

C9_Witness ==
    /\ pc = "done"
    /\ CompanyPage
    /\ page.ending = "open"
    /\ Len(yielded) = Len(page.fields)
    /\ facts.industry # None

(***************************************************************************)
(* Properties of normalize_value (specification SpecNormalize)             *)
(***************************************************************************)
\* C6: normalizing a normalized value changes nothing.
C6_NormalizeIdempotent == nv_pc = "twice" => nv_twice = nv_once

(***************************************************************************)
(* Properties of _extract_ceo (specification SpecCeo)                      *)
(***************************************************************************)
CeoOfForm(people, form) == {k \in 1..Len(people) : people[k].form = form /\ people[k].role = "CEO"}

\* the name the documented order gives: the first linked CEO, else the
\* first parenthesised CEO, else the first CEO with a trailing title
ExpectedCeo(people) ==
    LET form == IF CeoOfForm(people, "link") # {} THEN "link"
                ELSE IF CeoOfForm(people, "paren") # {} THEN "paren"
                ELSE "title"
    IN  people[MinOf(CeoOfForm(people, form))].name

HasCeo(people) == \E k \in 1..Len(people) : people[k].role = "CEO"

\* C10: on a comma-separated key_people value the patterns are tried in
\* order (link, parenthesis, trailing title) and the result is exactly the
\* name attached to the CEO marker, wherever that person is in the list;
\* the field mapper passes the raw value, so facts.ceo is the same name.
C10_CeoNameByPatternOrder ==
    (ceo_pc # "start" /\ HasCeo(ceo_people)) =>
        /\ ceo_result = Some(ExpectedCeo(ceo_people))
        /\ ceo_pc = "mapped" => ceo_facts.ceo = ceo_result

C10_Witness ==
    /\ ceo_pc = "mapped"
    /\ ceo_value = "Ruth Porat (CFO), Sundar Pichai (CEO)"
    /\ ceo_result = Some("Sundar Pichai")
    /\ ceo_facts.ceo = Some("Sundar Pichai")

(***************************************************************************)
(* Properties of _process_infobox_field on plain-text infoboxes            *)
(* (specification SpecPlain)                                               *)
(***************************************************************************)
CeoKeys == {"key_people", "ceo"}

\* whether the k-th yielded field reaches the ceo branch and isolates a name
IsolatesName(fields, k) ==
    /\ fields[k].key \in CeoKeys
    /\ normalize_value(fields[k].raw_value) # ""
    /\ extract_ceo(fields[k].raw_value) \notin {None, Some("")}

RECURSIVE LastCeo(_, _)
\* the name isolated by the last of the first k fields that isolates one
LastCeo(fields, k) ==
    IF k = 0 THEN None
    ELSE IF IsolatesName(fields, k) THEN extract_ceo(fields[k].raw_value)
    ELSE LastCeo(fields, k - 1)

\* C11: in every state of a parse facts.ceo is None or a non-empty string,
\* and it is the name isolated by the last field so far that isolated one:
\* a key_people or ceo field whose extraction gives no name or the empty
\* string leaves ceo as it was.
C11_CeoUnsetOrNonEmpty ==
    /\ facts.ceo = None \/ (Len(facts.ceo) = 1 /\ facts.ceo[1] # "")
    /\ facts.ceo = LastCeo(yielded, Len(yielded))

\* a key_people field with an empty fallback result was processed after one
\* that named the CEO, and another page holds only the empty one
C11_Witness ==
    /\ pc = "done"
    /\ Len(yielded) = 2
    /\ yielded[1].raw_value = "Sundar Pichai (CEO)"
    /\ yielded[2].key = "key_people"
    /\ extract_ceo(yielded[2].raw_value) = Some("")
    /\ facts.ceo = Some("Sundar Pichai")
    /\ facts.raw_infobox["key_people"] = yielded[2].raw_value

\* C12: once a field whose key is location, headquarters, hq_location,
\* hq_location_city or location_city and whose cleaned value is non-empty
\* has been processed, facts.headquarters is that cleaned value.
C12_HeadquartersFromEveryKey ==
    (/\ yielded # <<>>
     /\ yielded[Len(yielded)].key \in HeadquartersKeys
     /\ normalize_value(yielded[Len(yielded)].raw_value) # "")
    => facts.headquarters = Some(normalize_value(yielded[Len(yielded)].raw_value))

(***************************************************************************)
(* Properties of _split_list (specification SpecSplit)                     *)
(***************************************************************************)
\* the characters of s[i-1:] that are neither whitespace nor separators
RECURSIVE Content(_, _)
Content(s, i) ==
    IF i > Len(s) THEN ""
    ELSE (IF Ch(s, i) \in SpaceSet \cup ListSeparators THEN "" ELSE Ch(s, i)) \o Content(s, i + 1)

\* position i holds the first character of a piece that is not whitespace:
\* only whitespace lies between it and the separator (or the start) before it
PieceStartsAt(s, i) ==
    /\ Ch(s, i) \notin SpaceSet \cup ListSeparators
    /\ \A j \in 1..(i - 1) :
          (\A m \in j..(i - 1) : Ch(s, m) \notin ListSeparators) => IsSpace(Ch(s, j))

\* an item as _split_list promises it: non-empty, trimmed, free of separators
IsListItem(item) ==
    /\ item # ""
    /\ ~IsSpace(Ch(item, 1))
    /\ ~IsSpace(Ch(item, Len(item)))
    /\ \A i \in 1..Len(item) : Ch(item, i) \notin ListSeparators

\* C13: for every input _split_list returns non-empty, trimmed items that
\* hold no comma, newline, bullet or asterisk; there is one item for every
\* piece of the input that is not blank, each item is a part of the input,
\* and the items keep the characters of the input in their order.
C13_SplitListTrimmedInOrder ==
    sl_pc = "done" =>
        /\ \A k \in 1..Len(sl_items) : IsListItem(sl_items[k]) /\ Contains(sl_x, sl_items[k])
        /\ Len(sl_items) = Cardinality({i \in 1..Len(sl_x) : PieceStartsAt(sl_x, i)})
        /\ Content(Join(sl_items, ""), 1) = Content(sl_x, 1)

\* the newline fixture of the tests, and an input whose pieces need trimming
\* and include an empty one
C13_Witness ==
    /\ sl_pc = "done"
    /\ \/ sl_x = "Search\nCloud\nAds" /\ sl_items = <<"Search", "Cloud", "Ads">>
       \/ sl_x = "A ,*B c" /\ sl_items = <<"A", "B c">>

\* the keys _process_infobox_field maps to an attribute that holds one string
ScalarKeys == FoundingKeys \cup (HeadquartersKeys \ {"location_city"}) \cup {"industry"}
                \cup EmployeesKeys \cup {"revenue"}

ScalarAttribute(key) ==
    CASE key \in FoundingKeys     -> "founding_date"
      [] key \in HeadquartersKeys -> "headquarters"
      [] key = "industry"         -> "industry"
      [] key \in EmployeesKeys    -> "employees"
      [] key = "revenue"          -> "revenue"

\* the field processed last on a single-line page, if any
LastOnLine(k) == page.layout = "line" /\ k = Len(yielded) /\ k > 0

\* C14 as stated: on a single-line infobox of plain-text values the field
\* processed last has set the attribute of its key, when that holds one
\* string, and raw_infobox[key] to the trimmed value of the field.
C14_AttributeIsTrimmedValue ==
    \A k \in 1..Len(yielded) :
        (LastOnLine(k) /\ yielded[k].key \in ScalarKeys) =>
            /\ facts[ScalarAttribute(yielded[k].key)] = Some(Strip(page.fields[k].value))
            /\ facts.raw_infobox[yielded[k].key] = Strip(page.fields[k].value)

\* what the parse of the Google fixture leaves in facts
GoogleFacts ==
    [founding_date |-> Some("September 4, 1998"),
     founders      |-> <<"Larry Page", "Sergey Brin">>,
     headquarters  |-> Some("Mountain View, California"),
     industry      |-> Some("Technology"),
     products      |-> <<"Search engine", "Cloud computing">>,
     employees     |-> Some("190,000"),
     ceo           |-> Some("Sundar Pichai"),
     revenue       |-> None,
     raw_infobox   |-> [k \in {GoogleFields[i].key : i \in 1..Len(GoogleFields)} |->
                          (CHOOSE f \in Range(GoogleFields) : f.key = k).value]]

\* C14, amended: on a single-line infobox of plain-text values the k-th
\* field yielded is the k-th field of the infobox with its value trimmed;
\* the field processed last has set raw_infobox[key] to that value with
\* every run of whitespace collapsed to one space, and its attribute to the
\* same string (founders and products: to its split; ceo: to the name
\* isolated by the last field that isolated one).  The Google fixture gives
\* the facts of the test.
C14_AttributeIsCollapsedValue ==
    /\ \A k \in 1..Len(yielded) :
          page.layout = "line" =>
              /\ yielded[k].key = page.fields[k].key
              /\ yielded[k].raw_value = Strip(page.fields[k].value)
    /\ \A k \in 1..Len(yielded) :
          LastOnLine(k) =>
              /\ facts.raw_infobox[yielded[k].key] = CollapseWs(yielded[k].raw_value)
              /\ yielded[k].key \in ScalarKeys =>
                    facts[ScalarAttribute(yielded[k].key)] = Some(CollapseWs(yielded[k].raw_value))
              /\ yielded[k].key = "founder" =>
                    facts.founders = split_list(CollapseWs(yielded[k].raw_value))
              /\ yielded[k].key \in {"products", "services"} =>
                    facts.products = split_list(CollapseWs(yielded[k].raw_value))
              /\ facts.ceo = LastCeo(yielded, k)
    /\ (pc = "done" /\ page.layout = "line" /\ page.fields = GoogleFields) => facts = GoogleFacts

\* the Google fixture was parsed on one line, and so was 'founded=1998'
\* after a value whose inner whitespace was collapsed
C14_Witness ==
    /\ pc = "done"
    /\ page.layout = "line"
    /\ \/ page.fields = GoogleFields /\ facts.ceo = Some("Sundar Pichai")
       \/ /\ page.fields = <<[key |-> "industry", value |-> " Cloud  computing "],
                             [key |-> "founded", value |-> "1998"]>>
          /\ facts.founding_date = Some("1998")
          /\ facts.raw_infobox["founded"] = "1998"
          /\ facts.industry = Some("Cloud computing")

(***************************************************************************)
(* Properties of fetch_company (specification SpecFetch)                   *)
(***************************************************************************)
\* the search has no result, or the page is marked missing
NoPage ==
    \/ fc_search = "empty"
    \/ fc_search = "results" /\ fc_page_data.kind = "missing"

\* there is a page, but no revision or no content in its revision
NoWikitext ==
    /\ fc_search = "results"
    /\ fc_page_data.kind = "found"
    /\ \/ fc_page_data.revisions # "present"
       \/ fc_page_data.content \in {"absent", "null"}

\* C15: when the Wikipedia API yields no page, or no wikitext for the page,
\* fetch_company ends by returning None and no exception escapes it.
C15_NoneWhenPageOrWikitextMissing ==
    (fc_pc \in {"returned", "raised"} /\ (NoPage \/ NoWikitext)) =>
        fc_returned = "None" /\ fc_raised = "none"

(***************************************************************************)
(* Properties of concurrent parses (specification SpecCalls)               *)
(***************************************************************************)
\* the facts of a call that runs from its first step to its last with no
\* step of another call in between
RECURSIVE RunAlone(_, _, _)
RunAlone(c, call, heap) ==
    CASE call.pc = "done"   -> Deref(call.facts, heap)
      [] call.pc = "start"  -> RunAlone(c, LocateCall(call), heap)
      [] call.pc = "single" -> RunAlone(c, PartCall(call), heap)
      [] call.pc = "multi"  -> RunAlone(c, IF call.lines # <<>> THEN LineCall(call)
                                           ELSE LastCall(call), heap)
      [] call.pc = "store"  -> RunAlone(c, [call EXCEPT !.pc = "map"],
                                        StoreRawHeap(call, heap))
      [] call.pc = "map"    -> RunAlone(c, MapFieldCall(c, call, heap),
                                        MapFieldHeap(c, call, heap))

AloneFacts(c) == RunAlone(c, NewCall(c, cc_pages[c]), NewHeap)

\* the list and dict objects a CompanyFacts refers to
Containers(f) == {f.founders, f.products, f.raw_infobox}

\* C16: two parses that run concurrently on one fetcher, each with its own
\* CompanyFacts, give under every interleaving of their steps the facts
\* each gives alone: no attribute of the fetcher is written and no
\* container of one CompanyFacts is a container of the other
C16_ConcurrentParsesAreIndependent ==
    /\ cc_self = NewFetcher
    /\ \A c \in Calls : \A d \in Calls \ {c} :
           Containers(cc_calls[c].facts) \cap Containers(cc_calls[d].facts) = {}
    /\ \A c \in Calls :
           cc_calls[c].pc = "done" =>
               Deref(cc_calls[c].facts, cc_heap) = AloneFacts(c)

\* both parses are over, each took steps while the other was under way,
\* the pages differ and each wrote its raw_infobox and a list
C16_Witness ==
    /\ \A c \in Calls : cc_calls[c].pc = "done" /\ cc_overlapped[c]
    /\ cc_pages["a"].fields # cc_pages["b"].fields
    /\ \A c \in Calls : /\ cc_heap[cc_calls[c].facts.raw_infobox] # EmptyDict
                        /\ cc_heap[cc_calls[c].facts.founders] # <<>>
    /\ cc_heap[cc_calls["a"].facts.raw_infobox] # cc_heap[cc_calls["b"].facts.raw_infobox]

(***************************************************************************)
(* Properties of exponential_backoff (specification SpecBackoff)           *)
(***************************************************************************)
IsFuncCall(e) == e.call = "func"

IsOnRetryCall(e) == e.call = "on_retry"

\* the calls of func made so far, in order
FuncCalls == SelectSeq(bo_trace, IsFuncCall)

\* the calls of on_retry made so far, in order
OnRetryCalls == SelectSeq(bo_trace, IsOnRetryCall)

Terminated == bo_pc \in {"returned", "raised"}

\* func is called at most max_attempts times, with attempts 0, 1, ... and
\* never again once a call has returned; the result of that call is returned
CallsUntilFirstResult(calls) ==
    /\ Len(calls) <= bo_max_attempts
    /\ \A i \in 1..Len(calls) : calls[i].attempt = i - 1
    /\ \A i \in 1..(Len(calls) - 1) : calls[i].outcome # "returns"
    /\ (calls # <<>> /\ calls[Len(calls)].outcome = "returns") =>
           /\ bo_pc = "returned"
           /\ bo_result = Some([of |-> "func", attempt |-> Len(calls) - 1])
    /\ (bo_pc = "returned" /\ \A i \in 1..Len(calls) : calls[i].outcome # "returns") =>
           /\ bo_result = None
           /\ Len(calls) = bo_max_attempts

\* C17: exponential_backoff calls func until the first call that does not
\* raise and returns its result without another call, never calls func
\* more than max_attempts times, and when all max_attempts calls raise
\* returns None after exactly max_attempts calls; no exception of func
\* escapes
C17_NoExceptionOfFuncEscapes ==
    /\ CallsUntilFirstResult(FuncCalls)
    /\ (bo_raised # None => bo_raised[1].by # "func")
    /\ (/\ Terminated
        /\ Len(FuncCalls) = bo_max_attempts
        /\ \A i \in 1..Len(FuncCalls) : FuncCalls[i].outcome # "returns")
       => (bo_pc = "returned" /\ bo_result = None)

\* C17: as above for the calls that raise an Exception; a BaseException of
\* func that is no Exception (KeyboardInterrupt, SystemExit) is not caught:
\* it ends the attempts and escapes
C17_NoExceptionEscapesButBaseException ==
    /\ CallsUntilFirstResult(FuncCalls)
    /\ (bo_raised # None /\ bo_raised[1].by = "func") =>
           /\ bo_raised[1].type = "BaseException"
           /\ bo_raised[1].attempt = Len(FuncCalls) - 1
    /\ (/\ Terminated
        /\ Len(FuncCalls) = bo_max_attempts
        /\ \A i \in 1..Len(FuncCalls) : FuncCalls[i].outcome = "Exception")
       => (bo_pc = "returned" /\ bo_result = None)

\* every one of two or more attempts raised an Exception and None is returned
C17_Witness ==
    /\ bo_pc = "returned"
    /\ bo_result = None
    /\ bo_max_attempts >= 2
    /\ Len(FuncCalls) = bo_max_attempts
    /\ \A i \in 1..Len(FuncCalls) : FuncCalls[i].outcome = "Exception"

\* the attempts on_retry has been called with, in order
RetryIndices == [i \in 1..Len(OnRetryCalls) |-> OnRetryCalls[i].attempt]

\* C18: on_retry is called once for each failed attempt that is followed by
\* another attempt, with the 0-based index of the failed attempt and its
\* exception, after the failure and before the sleep and the next call of
\* func; it is not called after a success nor after the final failed
\* attempt: k failures and a success give calls with indices 0..k-1, and
\* max_attempts failures give max_attempts - 1 calls
C18_OnRetryOncePerRetriedFailure ==
    /\ bo_on_retry = "none" => OnRetryCalls = <<>>
    /\ \A p \in 1..Len(bo_trace) :
           bo_trace[p].call = "on_retry" =>
               /\ p > 1
               /\ bo_trace[p - 1].call = "func"
               /\ bo_trace[p - 1].outcome = "Exception"
               /\ bo_trace[p - 1].attempt = bo_trace[p].attempt
               /\ bo_trace[p].exception = Raised("func", bo_trace[p].attempt, "Exception")
               /\ bo_trace[p].attempt < bo_max_attempts - 1
    /\ bo_on_retry = "given" =>
           /\ \A p \in 1..Len(bo_trace) : \A q \in (p + 1)..Len(bo_trace) :
                  (/\ bo_trace[p].call = "func"
                   /\ bo_trace[q].call = "func"
                   /\ bo_trace[q].attempt = bo_trace[p].attempt + 1)
                  => /\ q = p + 3
                     /\ bo_trace[p + 1].call = "on_retry"
                     /\ bo_trace[p + 2].call = "sleep"
           /\ (bo_pc = "returned" /\ bo_result # None) =>
                  RetryIndices = [i \in 1..bo_result[1].attempt |-> i - 1]
           /\ (bo_pc = "returned" /\ bo_result = None /\ bo_max_attempts > 0) =>
                  Len(OnRetryCalls) = bo_max_attempts - 1

\* two failures and a success, with on_retry called for each failure
C18_Witness ==
    /\ bo_on_retry = "given"
    /\ bo_pc = "returned"
    /\ bo_result = Some([of |-> "func", attempt |-> 2])
    /\ RetryIndices = <<0, 1>>

(***************************************************************************)
(* Properties of calculate_delay (specification SpecDelay)                 *)
(***************************************************************************)
\* C19: for every attempt and every BackoffConfig the delay calculate_delay
\* returns does not exceed max_delay, and with jitter 0 it is
\* min(initial_delay * multiplier^attempt, max_delay)
C19_DelayAtMostMaxDelay ==
    cd_pc = "done" =>
        /\ cd_delay <= cd_config.max_delay * Scale
        /\ cd_config.jitter = 0 =>
               cd_delay = MinOf({cd_config.initial_delay * Pow(cd_config.multiplier, cd_attempt),
                                 cd_config.max_delay}) * Scale

(***************************************************************************)
(* Properties of store_items (specification SpecStore)                     *)
(***************************************************************************)
\* the writes that returned data
Inserted == {i \in 1..Len(st_writes) : st_writes[i].outcome = "inserted"}

\* C20: for every list of items and every outcome of each write (row
\* inserted, conflict ignored, exception raised) store_items of both
\* storages attempts every item once in list order and returns
\* (new, skipped) with new + skipped = len(items) and new the number of
\* writes that returned data; a failing item is counted as skipped and
\* the items after it are still written
C20_CountsEveryItemOnce ==
    /\ Len(st_writes) <= Len(st_items)
    /\ \A i \in 1..Len(st_writes) : st_writes[i].item = i
    /\ st_new_count = Cardinality(Inserted)
    /\ st_new_count + st_dup_count = Len(st_writes)
    /\ st_pc = "returned" =>
           /\ Len(st_writes) = Len(st_items)
           /\ st_returned = Some(<<Cardinality(Inserted),
                                   Len(st_items) - Cardinality(Inserted)>>)

\* store_items has returned; a write failed, a later one inserted its row,
\* and a conflict was ignored
C20_Witness ==
    /\ st_pc = "returned"
    /\ \E i \in 1..Len(st_writes) : \E j \in (i + 1)..Len(st_writes) :
           /\ st_writes[i].outcome = "error"
           /\ st_writes[j].outcome = "inserted"
    /\ \E i \in 1..Len(st_writes) : st_writes[i].outcome = "ignored"

(***************************************************************************)
(* Properties of repeated store_items runs (specification SpecRuns)        *)
(***************************************************************************)
\* C21: when store_items is given a list of items a second time against a
\* store that holds them, no row is added, new_items is 0 and every item
\* is counted in duplicates_skipped, for quiz, flashcard and factoid items
\* alike
C21_SecondRunAddsNoRow ==
    /\ tr_run = Runs => tr_rows = tr_rows_first
    /\ tr_pc = "done" => tr_returned[Runs] = <<0, Len(tr_items)>>

(***************************************************************************)
(* Properties of GlassdoorScraper (specifications SpecScrape and           *)
(* SpecScrapeFair)                                                         *)
(***************************************************************************)
\* a response with status 403 or 429 or with a block indicator in its body
BlockResponse(r) ==
    /\ r.kind = "response"
    /\ \/ r.status \in {403, 429}
       \/ \E indicator \in BlockedIndicators : Contains(Lower(r.text), indicator)

\* C22: scrape returns an empty list and raises nothing whenever a response
\* of the run is a block, at the employer search or at any interview page,
\* also after earlier pages yielded reviews
C22_BlockedRunReturnsEmpty ==
    (/\ gd_pc = "returned"
     /\ \E i \in 1..Len(gd_responses) : BlockResponse(gd_responses[i]))
    => (gd_returned = Some(<<>>) /\ gd_raised = None)

\* the search found the employer, a page yielded reviews, the next page
\* was a block, and scrape has returned
C22_Witness ==
    /\ gd_pc = "returned"
    /\ Len(gd_responses) >= 3
    /\ gd_items # <<>>
    /\ BlockResponse(gd_responses[Len(gd_responses)])
    /\ gd_returned = Some(<<>>)

\* the interview pages fetched so far
PagesFetched == IF gd_responses = <<>> THEN 0 ELSE Len(gd_responses) - 1

\* a page that ends the loop: a fetch error or a page with no reviews
StopsLoop(r) == r.kind = "exception" \/ (~BlockResponse(r) /\ r.reviews = <<>>)

\* C30: scrape_interviews terminates for every limit >= 0 and every
\* sequence of page responses after at most limit // 10 + 1 pages, never
\* holds more than limit items, and stops at the first page with no
\* reviews or the first fetch error, returning the items collected so far
C30_TerminatesWithinLimits ==
    /\ [](/\ PagesFetched <= (gd_limit \div ReviewsPerPage) + 1
          /\ Len(gd_items) <= gd_limit
          /\ \A i \in 2..(Len(gd_responses) - 1) : ~StopsLoop(gd_responses[i])
          /\ (PagesFetched > 0 /\ StopsLoop(gd_responses[Len(gd_responses)])) =>
                 /\ gd_pc \in {"break", "returned"}
                 /\ gd_pc = "returned" => gd_returned = Some(gd_items))
    /\ <>(gd_pc = "returned")

\* three pages were fetched for limit 25 and exactly 25 items are returned
C30_Witness ==
    /\ gd_pc = "returned"
    /\ gd_limit = 25
    /\ PagesFetched = 3
    /\ gd_returned # None
    /\ Len(gd_returned[1]) = 25

(***************************************************************************)
(* Properties of _call_openai_for_quiz (specification SpecQuiz)            *)
(***************************************************************************)
\* a quiz with the three keys, exactly 3 wrong options, and a correct
\* answer that is none of them
WellFormedQuiz(o) ==
    /\ QuizKeys \subseteq DOMAIN o
    /\ Len(o["options"]) = 3
    /\ \A i \in 1..Len(o["options"]) : o["options"][i] # o["answer"]

\* C23: every result of _call_openai_for_quiz that is not None has the
\* keys question, answer and options, exactly 3 options, and a correct
\* answer that is not one of them; every other response gives None
C23_ResultIsWellFormedQuiz ==
    qz_pc = "done" =>
        /\ qz_result # None => WellFormedQuiz(qz_result[1])
        /\ (qz_response.kind # "json_object" \/ ~WellFormedQuiz(qz_response.object))
               => qz_result = None

(***************************************************************************)
(* C24, C25: the fields _parse_multiline_infobox hands to                  *)
(* _process_infobox_field, stated on the lines of infobox_text.            *)
(***************************************************************************)
SourceLines == Split(infobox_text, {"\n"})

\* the lines consumed so far by the loop
Consumed == Len(SourceLines) - Len(lines)

StartLines(ls) == {i \in 1..Len(ls) : FieldMatches(ls[i])}

ClosingLines(ls) == {i \in 1..Len(ls) : StartsWithAt(Strip(ls[i]), 1, "}}")}

\* the line before the next field-start line after line i, or the last line
UpToNextStart(ls, i) == MinOf({j \in StartLines(ls) : j > i} \cup {Len(ls) + 1}) - 1

\* the line before the next field-start or closing-brace line after line i
UpToNextStartOrClose(ls, i) ==
    MinOf({j \in StartLines(ls) \cup ClosingLines(ls) : j > i} \cup {Len(ls) + 1}) - 1

\* the rest of start line i, then the stripped non-empty non-closing lines
\* of i+1..last, joined by single spaces
RawValueOf(ls, i, last) ==
    LET Kept(l) == Strip(l) # "" /\ ~StartsWithAt(Strip(l), 1, "}}")
        Stripped(sel) == [k \in 1..Len(sel) |-> Strip(sel[k])]
    IN  Join(<<FieldRest(ls[i])>> \o Stripped(SelectSeq(SubSeq(ls, i + 1, last), Kept)), " ")

\* the n-th field-start line
NthStart(ls, n) ==
    CHOOSE i \in StartLines(ls) : Cardinality({j \in StartLines(ls) : j <= i}) = n

\* one field per field-start line, in source order, each ending at End
FieldsOf(ls, End(_, _)) ==
    LET FieldAt(i) == [key |-> FieldKey(ls[i]), raw_value |-> RawValueOf(ls, i, End(ls, i))]
    IN  [n \in 1..Cardinality(StartLines(ls)) |-> FieldAt(NthStart(ls, n))]

\* C24: a closing-brace line ends the field in progress: a later non-empty
\* line that starts no field is appended to no field's value
C24_ClosingLineEndsField ==
    pc = "done" => yielded = FieldsOf(SourceLines, UpToNextStartOrClose)

\* C25: the fields are processed in the order of their field-start lines,
\* each exactly once, the last one at the end of the input; the raw value of
\* a field is the rest of its start line and the stripped non-empty,
\* non-closing lines up to the next field-start line, joined by single
\* spaces; lines before the first field-start line belong to no field and a
\* repeated key yields separate fields
C25_FieldsInSourceOrder ==
    LET Started == Cardinality({i \in StartLines(SourceLines) : i <= Consumed})
        Expected == FieldsOf(SourceLines, UpToNextStart)
    IN  /\ pc = "multi" => yielded = SubSeq(Expected, 1, MaxOf({0, Started - 1}))
        /\ pc = "done" => yielded = Expected

\* a repeated key with continuation, closing and leading lines was parsed
C25_Witness ==
    /\ pc = "done"
    /\ Len(yielded) >= 2
    /\ yielded[1].key = yielded[2].key
    /\ ClosingLines(SourceLines) # {}
    /\ \E i \in StartLines(SourceLines) : UpToNextStartOrClose(SourceLines, i) > i

(***************************************************************************)
(* C26, C27: what normalize_value keeps of a value that holds a template   *)
(***************************************************************************)
StartDateTemplate == "{{Start date|1998|9}}"

StartDateText == "1998-09"

IsPlainText(s) == \A i \in 1..Len(s) : Ch(s, i) \in {"a", " "}

\* C26: only the start-date template is replaced by its date text: the text
\* before and after it is kept and cleaned
C26_TextAroundStartDateKept ==
    LET Kept(before, after) ==
            IsPlainText(before) /\ IsPlainText(after)
                => nv_once = clean_wiki_value(before \o StartDateText \o after)
        Around(k) ==
            k # 0 => Kept(SubSeq(nv_x, 1, k - 1), From(nv_x, k + Len(StartDateTemplate)))
    IN  nv_pc # "start" => Around(FindFrom(nv_x, StartDateTemplate, 1))

\* C27: an unbulleted-list template loses only its delimiters: every item
\* is still in the normalized value and the field is recorded
C27_UblContentKept ==
    LET Recorded(f) == f.industry # None /\ "industry" \in DOMAIN f.raw_infobox
    IN  nv_pc # "start" =>
            /\ \A name \in UblNames, items \in UblItemLists :
                   nv_x = UblText(name, items) =>
                       \A k \in 1..Len(items) : Contains(nv_once, clean_wiki_value(items[k]))
            /\ Recorded(process_infobox_field("industry", nv_x, NewFacts))

(***************************************************************************)
(* C28: the fallback of _extract_ceo                                       *)
(***************************************************************************)
NoCeoPattern(value) ==
    /\ CeoLinkSearch(value) = None
    /\ CeoParenSearch(value) = None
    /\ CeoTitleSearch(value) = None

\* C28: when no CEO pattern matches a non-empty value, the result is the
\* text before the first comma of the generically cleaned value
C28_FallbackCleansGenerically ==
    ceo_pc # "start" /\ ceo_value # "" /\ NoCeoPattern(ceo_value)
        => ceo_result = Some(Strip(Split(clean_wiki_value(ceo_value), {","})[1]))

(***************************************************************************)
(* C29: the progress of fetch_trends.main                                  *)
(***************************************************************************)
ProcessedSlugs(progress) ==
    {progress.processed_companies[k] : k \in 1..Len(progress.processed_companies)}

\* the role slugs an entry of progress['results'] holds a volume for
RolesOf(entry) == [k \in 1..Len(entry.roles) |-> entry.roles[k].slug]

\* processed_companies and results name the same companies
SameCompanies(progress) == ProcessedSlugs(progress) = DOMAIN progress.results

\* a blocked company is recorded nowhere, no processed company is fetched
\* again, and the file holds the progress once a company is completed
ProgressIsSound(progress, loaded) ==
    /\ SameCompanies(progress)
    /\ ft_file # None => SameCompanies(ft_file[1])
    /\ ft_blocked => ft_companies[ft_i] \notin ProcessedSlugs(progress)
                                               \cup DOMAIN progress.results
    /\ ft_fetched \cap ProcessedSlugs(loaded) = {}
    /\ progress # loaded => ft_file = Some(progress)

\* C29, as stated: after every step of every run, fresh or resumed, the
\* processed companies are the companies with a result, every result holds a
\* volume for every requested role, a block records nothing, no processed
\* company is fetched again and progress is saved after each company
C29_EveryEntryHoldsRequestedRoles ==
    ft_progress # None =>
        /\ ProgressIsSound(ft_progress[1], ft_loaded[1])
        /\ \A slug \in DOMAIN ft_progress[1].results :
               RolesOf(ft_progress[1].results[slug]) = ft_roles

\* C29, amended: as above, but a result holds a volume for every role
\* requested by the run that processed the company; a company a resumed run
\* skips keeps the roles of the earlier run
C29_EntryHoldsRolesOfItsRun ==
    ft_progress # None =>
        /\ ProgressIsSound(ft_progress[1], ft_loaded[1])
        /\ \A slug \in DOMAIN ft_progress[1].results \ ProcessedSlugs(ft_loaded[1]) :
               RolesOf(ft_progress[1].results[slug]) = ft_roles

\* a resumed run skipped a company processed with other roles, completed
\* no company and was blocked at a role-level request
C29_Witness ==
    /\ ft_pc = "exited"
    /\ ft_run = 2
    /\ ft_blocked
    /\ ft_role_data # <<>>
    /\ \E slug \in ProcessedSlugs(ft_loaded[1]) :
           RolesOf(ft_progress[1].results[slug]) # ft_roles

====
